---- MODULE Spec2Model ----
(***************************************************************************)
(* Job lifecycle and distributed scheduling of the rtags server            *)
(* (src/src/Server.cpp): the pending queue, the processing and local job   *)
(* tables, the announce / request / response protocol between peers, the   *)
(* reschedule timer, the work() loop and its WorkScope guard.              *)
(*                                                                         *)
(* Every handler of Server is an operator from a server state (a record    *)
(* holding the member variables) to the server state after the handler     *)
(* has run to completion; the actions install the result.                  *)
(***************************************************************************)
EXTENDS Integers, Sequences, FiniteSets, TLC

\* ------------------------------------------------------------------ bounds
NumOwn == 1             \* own job objects alive at a time, lifecycle runs
NumQueued == 2          \* own job objects alive at a time, queueing runs
NumSolo == 3            \* own job objects alive at a time, fair runs
NumFromRemote == 1      \* FromRemote job objects alive at a time
NumHosts == 2           \* peers on the farm
MaxJobCount == 2        \* largest value of mOptions.jobCount
MaxCrashTimers == 1     \* armed crash notifications counted per job
MaxLog == 3             \* JobRequest dispatches remembered for round-robin
MaxResponses == 1       \* JobResponses being sent at the same time
MaxPending == 2         \* longest mPending explored
MaxQueue == 3           \* longest mPending explored, queueing runs
MaxExitCode == 2        \* largest exit code a shutdown is asked with
MaxPort == 2            \* tcp ports a peer may announce
MaxFailures == 3        \* largest mConnectToServerFailures explored
MaxDatagrams == 1       \* multicast datagrams waiting at a node

\* --------------------------------------------------------- configuration
RescheduleTimeout == 1          \* mOptions.rescheduleTimeout, in clock ticks
MaxPendingPreprocessSize == 2   \* mOptions.maxPendingPreprocessSize
ServerReconnectTimer == 5000    \* connectToServer, in ms

Min(a, b) == IF a < b THEN a ELSE b
Max(a, b) == IF a > b THEN a ELSE b

NumSlots == Max(Max(NumOwn, NumQueued), NumSolo)
Jobs == 1..(NumSlots + NumFromRemote)      \* job objects
RemoteSlots == (NumSlots + 1)..(NumSlots + NumFromRemote)
Hosts == 1..NumHosts
NoHost == 0                     \* the empty host name, String()
Procs == 1..(MaxJobCount + 1)   \* child process handles
Conns == 1..MaxJobCount         \* outgoing JobRequest connections
Resps == 1..MaxResponses        \* connections a JobResponse is being sent on
ForeignId == NumSlots + NumFromRemote + 1
JobServerNode == NumHosts + 1   \* the job-server among the nodes of a farm
FarmNodes == Hosts \cup {JobServerNode}
ExitCodes == 0..MaxExitCode
Ports == 1..MaxPort

\* IndexerJob::Flag, the bits the scheduler reads or writes
FromRemote == "FromRemote"
Remote == "Remote"
Rescheduled == "Rescheduled"
RunningLocal == "RunningLocal"
Crashed == "Crashed"
Aborted == "Aborted"
CompleteLocal == "CompleteLocal"
CompleteRemote == "CompleteRemote"
HighPriority == "HighPriority"
Flag == {FromRemote, Remote, Rescheduled, RunningLocal, Crashed, Aborted,
         CompleteLocal, CompleteRemote, HighPriority}
CompleteMask == {CompleteLocal, CompleteRemote}

VARIABLES
    cfg,                    \* the run: own job objects, recorded events
    role,                   \* "server" (JobServer), "solo" (NoJobServer), "client"
    noLocalCompiles,        \* mOptions.options & NoLocalCompiles
    jobCount,               \* mOptions.jobCount
    mServerConnection,      \* TRUE iff connected to the job-server
    mClients,               \* hosts of the connections in mClients
    mProjects,              \* TRUE iff the project of the jobs is in mProjects
    mPendingPreprocessJobs, \* sequence of jobs
    pool,                   \* jobs in mThreadPool (busy + backlog)
    mPending,               \* sequence of jobs
    mProcessingJobs,        \* id -> job
    mLocalJobs,             \* process -> job
    mPendingJobRequests,    \* connection -> [host, count]
    mRemotes,               \* key -> host of the Remote stored under key
    remoteList,             \* keys of mRemotes from mFirstRemote to mLastRemote
    mAnnounced,
    mWorkPending,
    born,                   \* job objects that exist
    id,                     \* job -> IndexerJob::id
    flags,                  \* job -> unit->flags
    preprocessed,           \* job -> unit->preprocessed is not empty
    process,                \* job -> IndexerJob::process (0 when null)
    age,                    \* job -> min(now - started, rescheduleTimeout)
    reported,               \* processes whose IndexerMessage has been handled
    timer,                  \* mRescheduleTimer: -1 stopped, else ticks left
    responses,              \* connection -> JobResponse being sent on it
    remoteHeld,             \* ids of our jobs that a peer is working on
    crashTimers,            \* jobs with a delayed crash notification armed
    notify,                 \* jobs Project::onJobFinished was called with
    rrLog,                  \* hosts of the last undisturbed JobRequests
    rrLogSet,               \* same, reset only when the set of peers changes
    ev,                     \* what the last handler did
    node,                   \* farm: node -> its Server, as far as exit goes
    wire,                   \* farm: <<from, to>> -> messages under way
    exitAsked               \* farm: the shutdown rc has asked for

vars == << cfg, role, noLocalCompiles, jobCount, mServerConnection, mClients,
           mProjects, mPendingPreprocessJobs, pool, mPending,
           mProcessingJobs, mLocalJobs, mPendingJobRequests, mRemotes,
           remoteList, mAnnounced, mWorkPending, born, id, flags,
           preprocessed, process, age, reported, timer, responses,
           remoteHeld, crashTimers, notify, rrLog, rrLogSet, ev,
           node, wire, exitAsked >>

\* ----------------------------------------------------------------- helpers
Range(f) == {f[x] : x \in DOMAIN f}
Drop(f, x) == [y \in (DOMAIN f) \ {x} |-> f[y]]
Put(f, x, v) == [y \in (DOMAIN f) \cup {x} |-> IF y = x THEN v ELSE f[y]]
SeqDrop(q, n) == SubSeq(q, n + 1, Len(q))
SeqTake(q, n) == SubSeq(q, 1, n)
InSeq(q, x) == \E i \in 1..Len(q) : q[i] = x
Count(q, x) == Cardinality({i \in 1..Len(q) : q[i] = x})
LastN(q, n) == IF Len(q) <= n THEN q ELSE SubSeq(q, Len(q) - n + 1, Len(q))
MinOf(S) == CHOOSE x \in S : \A y \in S : x <= y

RECURSIVE SumCounts(_, _)
SumCounts(f, D) ==
    IF D = {} THEN 0
    ELSE LET c == MinOf(D) IN f[c].count + SumCounts(f, D \ {c})

\* the record of what one handler did; every action starts from NoEvent
NoEvent == [op |-> "none", job |-> 0, workRuns |-> 0, scopes |-> 0,
            depth |-> 0, nested |-> 0, announce |-> 0, requests |-> << >>,
            launched |-> << >>, notified |-> {}, found |-> FALSE,
            acked |-> FALSE, local |-> FALSE, destroyed |-> {},
            renotified |-> FALSE, mid |-> 0, inner |-> 0,
            relayed |-> {}, peer |-> 0, port |-> 0, finished |-> FALSE,
            acted |-> FALSE, over |-> FALSE, overActed |-> FALSE,
            response |-> [jobs |-> << >>, finished |-> FALSE, numJobs |-> 0]]

\* the server state as one record
Cur == [cfg |-> cfg, role |-> role, noLocalCompiles |-> noLocalCompiles,
        jobCount |-> jobCount, mServerConnection |-> mServerConnection,
        mClients |-> mClients, mProjects |-> mProjects,
        mPendingPreprocessJobs |-> mPendingPreprocessJobs, pool |-> pool,
        mPending |-> mPending, mProcessingJobs |-> mProcessingJobs,
        mLocalJobs |-> mLocalJobs,
        mPendingJobRequests |-> mPendingJobRequests, mRemotes |-> mRemotes,
        remoteList |-> remoteList, mAnnounced |-> mAnnounced,
        mWorkPending |-> mWorkPending, born |-> born, id |-> id,
        flags |-> flags, preprocessed |-> preprocessed,
        process |-> process, age |-> age, reported |-> reported,
        timer |-> timer, responses |-> responses,
        remoteHeld |-> remoteHeld, crashTimers |-> crashTimers,
        notify |-> notify, rrLog |-> rrLog, rrLogSet |-> rrLogSet,
        ev |-> NoEvent]

\* the jobs some table, closure or timer of the server still refers to
Referenced(s) ==
    Range(s.mPending) \cup Range(s.mProcessingJobs) \cup Range(s.mLocalJobs)
      \cup UNION {Range(s.responses[r].jobs) : r \in DOMAIN s.responses}
      \cup {j \in Jobs : s.crashTimers[j] > 0}

\* IndexerJob::~IndexerJob: the last shared_ptr to a job is gone; a
\* JobResponse that was sent and carried no job has nothing left to do
Reap(s) ==
    LET dead == s.born \ Referenced(s)
        idle == {r \in DOMAIN s.responses :
                    s.responses[r].sent /\ s.responses[r].jobs = << >>}
    IN [s EXCEPT
          !.born = @ \ dead,
          !.id = [j \in Jobs |-> IF j \in dead THEN 0 ELSE @[j]],
          !.flags = [j \in Jobs |-> IF j \in dead THEN {} ELSE @[j]],
          !.preprocessed = [j \in Jobs |-> IF j \in dead THEN FALSE ELSE @[j]],
          !.process = [j \in Jobs |-> IF j \in dead THEN 0 ELSE @[j]],
          !.age = [j \in Jobs |->
                     IF j \in Range(s.mProcessingJobs) /\ Remote \in s.flags[j]
                     THEN @[j] ELSE 0],
          !.notify = @ \ dead,
          !.responses = [r \in (DOMAIN @) \ idle |-> @[r]],
          !.ev.destroyed = {[job |-> j, flags |-> s.flags[j]] : j \in dead}]

\* the fields of the event record that the run keeps
Watched(s) ==
    [f \in DOMAIN NoEvent |-> IF f \in s.cfg.watch THEN s.ev[f] ELSE NoEvent[f]]

Step(t) ==
    /\ cfg' = t.cfg
    /\ role' = t.role
    /\ noLocalCompiles' = t.noLocalCompiles
    /\ jobCount' = t.jobCount
    /\ mServerConnection' = t.mServerConnection
    /\ mClients' = t.mClients
    /\ mProjects' = t.mProjects
    /\ mPendingPreprocessJobs' = t.mPendingPreprocessJobs
    /\ pool' = t.pool
    /\ mPending' = t.mPending
    /\ mProcessingJobs' = t.mProcessingJobs
    /\ mLocalJobs' = t.mLocalJobs
    /\ mPendingJobRequests' = t.mPendingJobRequests
    /\ mRemotes' = t.mRemotes
    /\ remoteList' = t.remoteList
    /\ mAnnounced' = t.mAnnounced
    /\ mWorkPending' = t.mWorkPending
    /\ born' = t.born
    /\ id' = t.id
    /\ flags' = t.flags
    /\ preprocessed' = t.preprocessed
    /\ process' = t.process
    /\ age' = t.age
    /\ reported' = t.reported
    /\ timer' = t.timer
    /\ responses' = t.responses
    /\ remoteHeld' = t.remoteHeld
    /\ crashTimers' = t.crashTimers
    /\ notify' = t.notify
    /\ rrLog' = t.rrLog
    /\ rrLogSet' = t.rrLogSet
    /\ ev' = Watched(t)
    /\ UNCHANGED << node, wire, exitAsked >>

\* a handler runs to completion; runs in which mPending outgrows the bound
\* of the run are cut off
Install(t) == Len(t.mPending) <= t.cfg.maxPending /\ Step(Reap(t))

Op(s, name, j) == [s EXCEPT !.ev.op = name, !.ev.job = j]

IsComplete(s, j) == s.flags[j] \cap CompleteMask # {}

\* a server that takes itself to be on a farm at all times
hasServerAlways(s) == TRUE

\* Server::hasServer
hasServer(s) ==
    IF s.role = "server" THEN TRUE
    ELSE IF s.role = "solo" THEN FALSE
    ELSE s.mServerConnection

\* mThreadPool is created in Server::init unless NoJobServer is set
\* (ForcePreprocessing is not set in this model)
hasThreadPool(s) == s.role # "solo"

\* ------------------------------------------------------------------ work()
\* IndexerJob::launchProcess: a new Process becomes job->process and the job
\* runs locally
launchProcess(s, job) ==
    LET p == MinOf(Procs \ DOMAIN s.mLocalJobs)
    IN [s EXCEPT !.process[job] = p,
                 !.flags[job] = @ \cup {RunningLocal},
                 !.reported = @ \ {p}]

\* a launch that records every job in mProcessingJobs
LaunchLocalTracked(s, job) ==
    LET s1 == [s EXCEPT !.mProcessingJobs = Put(@, s.id[job], job)]
        s2 == [s1 EXCEPT !.flags[job] = @ \ {Rescheduled}]
        s3 == launchProcess(s2, job)
    IN [s3 EXCEPT !.mLocalJobs = Put(@, s3.process[job], job),
                  !.ev.launched = Append(@, job)]

\* work(), lines 2141-2157: one pending job becomes a local child
LaunchLocal(s, job) ==
    LET s1 == IF FromRemote \notin s.flags[job]
              THEN [s EXCEPT !.mProcessingJobs = Put(@, s.id[job], job)]
              ELSE s
        s2 == [s1 EXCEPT !.flags[job] = @ \ {Rescheduled}]
        s3 == launchProcess(s2, job)
    IN [s3 EXCEPT !.mLocalJobs = Put(@, s3.process[job], job),
                  !.ev.launched = Append(@, job)]

\* a top-up that does not count the jobs waiting in mPending
DrainPreprocessBlind(s) ==
    IF ~hasThreadPool(s) THEN s
    ELSE LET n == Max(0, Min(Len(s.mPendingPreprocessJobs),
                             MaxPendingPreprocessSize - Cardinality(s.pool)))
         IN [s EXCEPT !.pool = @ \cup Range(SeqTake(s.mPendingPreprocessJobs, n)),
                      !.mPendingPreprocessJobs = SeqDrop(@, n)]

\* work(), lines 2082-2093: top up the thread pool from mPendingPreprocessJobs
DrainPreprocess(s) ==
    IF ~hasThreadPool(s) THEN s
    ELSE LET pending == Min(Len(s.mPendingPreprocessJobs),
                            MaxPendingPreprocessSize
                              - (Cardinality(s.pool) + Len(s.mPending)))
             n == Max(0, pending)
         IN [s EXCEPT !.pool = @ \cup Range(SeqTake(s.mPendingPreprocessJobs, n)),
                      !.mPendingPreprocessJobs = SeqDrop(@, n)]

\* the free slots without the jobs already asked of peers
SlotsLessRequests(s) ==
    LET a == s.jobCount - (IF hasThreadPool(s) THEN Cardinality(s.pool) ELSE 0)
        b == a - Cardinality(DOMAIN s.mLocalJobs)
    IN IF s.noLocalCompiles THEN Min(b, 0) ELSE b

\* the free slots without the children that are running
SlotsLessLocal(s) ==
    LET a == s.jobCount - (IF hasThreadPool(s) THEN Cardinality(s.pool) ELSE 0)
        c == a - SumCounts(s.mPendingJobRequests, DOMAIN s.mPendingJobRequests)
    IN IF s.noLocalCompiles THEN Min(c, 0) ELSE c

\* the free slots of a server that does not look at NoLocalCompiles
SlotsUnclamped(s) ==
    (s.jobCount - (IF hasThreadPool(s) THEN Cardinality(s.pool) ELSE 0))
      - Cardinality(DOMAIN s.mLocalJobs)
      - SumCounts(s.mPendingJobRequests, DOMAIN s.mPendingJobRequests)

\* work(), lines 2081-2126: the free slots
Slots(s) ==
    LET a == s.jobCount - (IF hasThreadPool(s) THEN Cardinality(s.pool) ELSE 0)
        b == a - Cardinality(DOMAIN s.mLocalJobs)
        c == b - SumCounts(s.mPendingJobRequests, DOMAIN s.mPendingJobRequests)
    IN IF s.noLocalCompiles THEN Min(c, 0) ELSE c

\* a walk that launches the jobs at the tail of mPending first
RECURSIVE LaunchAll(_, _)
LaunchAll(s, q) ==
    IF q = << >> THEN s ELSE LaunchAll(LaunchLocal(s, Head(q)), Tail(q))
WalkPendingFromTail(s, rest, kept, jobs, announcables) ==
    LET live == SelectSeq(rest, LAMBDA j : ~IsComplete(s, j))
        k == Min(Max(jobs, 0), Len(live))
        stay == SeqTake(live, Len(live) - k)
    IN [s |-> [LaunchAll(s, SeqDrop(live, Len(live) - k))
                 EXCEPT !.mPending = stay],
        jobs |-> jobs - k,
        announcables |->
            Len(SelectSeq(stay, LAMBDA j : FromRemote \notin s.flags[j]))]

\* work(), lines 2131-2169: the walk over mPending. rest is the part of
\* mPending not visited yet, kept the part that stays
RECURSIVE WalkPending(_, _, _, _, _)
WalkPending(s, rest, kept, jobs, announcables) ==
    IF rest = << >>
    THEN [s |-> [s EXCEPT !.mPending = kept], jobs |-> jobs,
          announcables |-> announcables]
    ELSE LET job == Head(rest)
         IN IF IsComplete(s, job)
            THEN WalkPending(s, Tail(rest), kept, jobs, announcables)
            ELSE IF jobs > 0
            THEN WalkPending(LaunchLocal(s, job), Tail(rest), kept, jobs - 1,
                             announcables)
            ELSE IF FromRemote \notin s.flags[job]
            THEN IF ~s.mProjects
                 THEN WalkPending(s, Tail(rest), kept, jobs, announcables)
                 ELSE WalkPending(s, Tail(rest), Append(kept, job), jobs,
                                  announcables + 1)
            ELSE WalkPending(s, Tail(rest), Append(kept, job), jobs,
                             announcables)

\* announce whenever there is something to announce
AnnounceAlways(s, announcables) ==
    IF announcables > 0
    THEN [s EXCEPT !.mAnnounced = TRUE, !.ev.announce = @ + 1]
    ELSE s

\* work(), lines 2174-2190: announce once
Announce(s, announcables) ==
    IF ~s.mAnnounced /\ announcables > 0
    THEN [s EXCEPT !.mAnnounced = TRUE, !.ev.announce = @ + 1]
    ELSE s

\* the Remote that was tried stays the first
RotateNot(list) == list

\* work(), lines 2199-2215: the first Remote moves to the tail
Rotate(list) ==
    IF Len(list) > 1 THEN Append(Tail(list), Head(list)) ELSE list

RECURSIVE RotateN(_, _)
RotateN(list, n) == IF n = 0 THEN list ELSE RotateN(Rotate(list), n - 1)

\* work(), lines 2195-2238: dial the peers in order until one connects;
\* connectTcp fails for the first nfail peers tried
DialRemotes(s, jobs, nfail) ==
    LET remoteCount == Cardinality(DOMAIN s.mRemotes)
        failed == Min(nfail, remoteCount)
        l1 == RotateN(s.remoteList, failed)
    IN IF remoteCount = 0 \/ s.remoteList = << >> THEN s
       ELSE IF failed = remoteCount
       THEN [s EXCEPT !.remoteList = l1, !.rrLog = << >>]
       ELSE LET remote == Head(l1)
                host == s.mRemotes[remote]
                conn == MinOf(Conns \ DOMAIN s.mPendingJobRequests)
            IN [s EXCEPT
                  !.remoteList = Rotate(l1),
                  !.mPendingJobRequests =
                      Put(@, conn, [host |-> host, count |-> jobs]),
                  !.ev.requests = Append(@, [host |-> host, count |-> jobs]),
                  !.rrLog = LastN(Append(IF failed > 0 THEN << >> ELSE @, host),
                                  s.cfg.log),
                  !.rrLogSet = LastN(Append(@, host), s.cfg.log)]

\* what work() counts against jobCount, lines 2092-2104
Load(s) ==
    (IF hasThreadPool(s) THEN Cardinality(s.pool) ELSE 0)
      + Cardinality(DOMAIN s.mLocalJobs)
      + SumCounts(s.mPendingJobRequests, DOMAIN s.mPendingJobRequests)

\* a pass that goes on to the next peer after a JobRequest was sent
WorkDialOn(s, jobs, nfail) ==
    IF jobs <= 0 THEN s
    ELSE LET s1 == DialRemotes(s, jobs, nfail)
         IN IF DOMAIN s1.mPendingJobRequests = Conns THEN s1
            ELSE DialRemotes(s1, jobs, 0)

\* work(), lines 2192-2238: ask a peer for jobs for the slots still free
WorkDial(s, jobs, nfail) ==
    IF jobs <= 0 THEN s ELSE DialRemotes(s, jobs, nfail)

\* work(), lines 2171-2190: w is the outcome of the walk over mPending
WorkAnnounce(w, nfail) ==
    IF ~hasServer(w.s) THEN w.s
    ELSE WorkDial(Announce(w.s, w.announcables), w.jobs, nfail)

\* work(), lines 2128-2169: jobs is the number of free slots
WorkWalk(s, jobs, nfail) ==
    IF jobs <= 0 /\ ~hasServer(s) THEN s
    ELSE WorkAnnounce(WalkPending(s, s.mPending, << >>, jobs, 0), nfail)

\* work(), lines 2094-2126
WorkSlots(s, nfail) == WorkWalk(s, Slots(s), nfail)

\* Server::work, lines 2078-2238
WorkPass(s, nfail) ==
    WorkSlots(DrainPreprocess(
                  [s EXCEPT !.mWorkPending = FALSE, !.ev.workRuns = @ + 1,
                            !.ev.inner = @ + (IF s.ev.depth > 0 THEN 1 ELSE 0)]),
              nfail)

\* the event record keeps whether a pass of work() from s to r launched a
\* child or sent a JobRequest, and whether it returned with more than jobCount
WorkTally(s, r) ==
    LET acted == r.ev.launched # s.ev.launched \/ r.ev.requests # s.ev.requests
        over == Load(r) > r.jobCount
    IN [r EXCEPT !.ev.acted = @ \/ acted,
                 !.ev.over = @ \/ over,
                 !.ev.overActed = @ \/ (over /\ acted)]

\* Server::work
Work(s, nfail) == WorkTally(s, WorkPass(s, nfail))

\* a WorkScope that takes itself for the outermost
WorkScopeEnterAlways(s) ==
    [work |-> TRUE,
     s |-> [s EXCEPT !.mWorkPending = TRUE,
                     !.ev.scopes = @ + 1,
                     !.ev.nested = @ + (IF s.ev.depth > 0 THEN 1 ELSE 0),
                     !.ev.depth = @ + 1]]

\* Server::WorkScope::WorkScope
WorkScopeEnter(s) ==
    [work |-> ~s.mWorkPending,
     s |-> [s EXCEPT !.mWorkPending = TRUE,
                     !.ev.scopes = @ + 1,
                     !.ev.nested = @ + (IF s.ev.depth > 0 THEN 1 ELSE 0),
                     !.ev.depth = @ + 1]]

\* Server::WorkScope::~WorkScope
WorkScopeExit(s, work, nfail) ==
    LET s1 == [s EXCEPT !.ev.depth = @ - 1]
    IN IF work THEN Work(s1, nfail) ELSE s1

\* Server::addJob
addJob(s, job, nfail) ==
    WorkScopeExit([WorkScopeEnter(s).s EXCEPT !.mPending = Append(@, job)], WorkScopeEnter(s).work, nfail)

\* ---------------------------------------------------------------- handlers
\* a job object is constructed
NewJob(s, job, jid, fl, prep) ==
    [s EXCEPT !.born = @ \cup {job}, !.id[job] = jid, !.flags[job] = fl,
              !.preprocessed[job] = prep]

\* Project::onJobFinished: the project takes the result; it may admit
\* another job (readd, 0 for none) through Server::addJob
onJobFinished(s, job, readd, nfail) ==
    LET s1 == [s EXCEPT !.notify = @ \cup {job},
                        !.ev.notified = @ \cup {job},
                        !.ev.renotified = @ \/ (job \in s.notify)]
    IN IF readd = 0 THEN s1
       ELSE addJob(NewJob(s1, readd, readd, {}, FALSE), readd, nfail)

\* no result counts
FirstResultNever(f) == FALSE

\* FirstResult without the test of line 620: every result counts
FirstResultAlways(f) == TRUE

\* handleIndexerMessage, line 620: only the first result of a job counts
FirstResult(f) == f \cap CompleteMask = {}

\* every result counts as that of a local child
MarkCompleteLocal(f, local) ==
    IF Aborted \notin f THEN f \cup {CompleteLocal} ELSE f

\* handleIndexerMessage, lines 621-622: the Complete flag of a result
MarkComplete(f, local) ==
    IF Aborted \notin f
    THEN f \cup {IF local THEN CompleteLocal ELSE CompleteRemote}
    ELSE f

\* handleIndexerMessage, lines 606-629: the job of the message is in
\* mProcessingJobs
AcceptResult(s, mid, local, readd, nfail) ==
    LET job == s.mProcessingJobs[mid]
        runningFlag == IF local THEN RunningLocal ELSE Remote
        s1 == [s EXCEPT !.mProcessingJobs = Drop(@, mid),
                        !.ev.found = TRUE, !.ev.job = job,
                        !.flags[job] = @ \ {runningFlag}]
    IN IF FirstResult(s1.flags[job])
       THEN LET s2 == [s1 EXCEPT !.flags[job] = MarkComplete(@, local)]
            IN IF s2.mProjects THEN onJobFinished(s2, job, readd, nfail)
               ELSE s2
       ELSE s1

\* a result for a job that is not in mProcessingJobs is handed to the
\* project all the same
DropResultNotify(s, mid) ==
    LET js == {j \in s.born : s.id[j] = mid}
    IN IF js = {} \/ ~s.mProjects THEN s
       ELSE onJobFinished(s, MinOf(js), 0, 0)

\* handleIndexerMessage, lines 630-634: the job is not in mProcessingJobs
DropResult(s, mid) == s

\* Server::handleIndexerMessage; local is ip.isEmpty()
handleIndexerMessage(s, mid, local, readd, nfail) ==
    LET Body(t) ==
            LET t1 == IF mid \in DOMAIN t.mProcessingJobs
                      THEN AcceptResult(t, mid, local, readd, nfail)
                      ELSE DropResult(t, mid)
            IN [t1 EXCEPT !.ev.acked = TRUE, !.ev.local = local,
                          !.ev.mid = mid]
    IN WorkScopeExit(Body(WorkScopeEnter(s).s), WorkScopeEnter(s).work, nfail)

\* a failing child that is flagged and forgotten without a word to the project
ChildFailedQuiet(s, job, loaded) ==
    LET s1 == IF Aborted \notin s.flags[job]
              THEN [s EXCEPT !.flags[job] = @ \cup {Crashed}]
              ELSE s
    IN [s1 EXCEPT !.flags[job] = @ \ {RunningLocal}]

\* onLocalJobFinished, lines 1881-1897: a child that failed
ChildFailed(s, job, loaded) ==
    LET s1 == IF Aborted \notin s.flags[job]
              THEN [s EXCEPT !.flags[job] = @ \cup {Crashed}]
              ELSE s
        s2 == [s1 EXCEPT !.flags[job] = @ \ {RunningLocal}]
    IN IF s2.mProjects /\ loaded
       THEN [s2 EXCEPT !.crashTimers[job] = Min(@ + 1, MaxCrashTimers)]
       ELSE s2

\* Server::onLocalJobFinished; failed is returnCode() != 0 or an error
\* string, loaded is the project being Loaded or Syncing
onLocalJobFinished(s, p, failed, loaded, nfail) ==
    LET Body(t) ==
            LET job == t.mLocalJobs[p]
                t1 == IF ~IsComplete(t, job) /\ failed
                      THEN ChildFailed(t, job, loaded)
                      ELSE t
            IN [t1 EXCEPT !.process[job] = 0,
                          !.mProcessingJobs =
                              IF t.id[job] \in DOMAIN @
                              THEN Drop(@, t.id[job]) ELSE @,
                          !.mLocalJobs = Drop(@, p),
                          !.reported = @ \ {p},
                          !.ev.job = job]
    IN WorkScopeExit(Body(WorkScopeEnter(s).s), WorkScopeEnter(s).work, nfail)

\* the timer registered on line 1893 fires
crashNotification(s, job, readd, nfail) ==
    onJobFinished([s EXCEPT !.crashTimers[job] = @ - 1], job, readd, nfail)

\* a test that lets the jobs of peers be sent on
SendableOfPeers(s, job) == s.preprocessed[job]

\* handleJobRequestMessage, line 1533: a job that may be sent to a peer
Sendable(s, job) ==
    FromRemote \notin s.flags[job] /\ s.preprocessed[job]

\* a walk that takes every job it may send, whatever the request asks for
TakeJobsAll(s, rest, kept, jobs, numJobs) ==
    [pending |-> SelectSeq(rest, LAMBDA j : ~IsComplete(s, j)
                                             /\ ~Sendable(s, j)),
     jobs |-> SelectSeq(rest, LAMBDA j : ~IsComplete(s, j) /\ Sendable(s, j)),
     finished |-> TRUE]

\* handleJobRequestMessage, lines 1526-1560: the walk over mPending
RECURSIVE TakeJobs(_, _, _, _, _)
TakeJobs(s, rest, kept, jobs, numJobs) ==
    IF rest = << >>
    THEN [pending |-> kept, jobs |-> jobs, finished |-> TRUE]
    ELSE LET job == Head(rest)
         IN IF IsComplete(s, job)
            THEN TakeJobs(s, Tail(rest), kept, jobs, numJobs)
            ELSE IF Sendable(s, job)
            THEN IF Len(jobs) + 1 = numJobs
                 THEN [pending |-> kept \o Tail(rest),
                       jobs |-> Append(jobs, job), finished |-> FALSE]
                 ELSE TakeJobs(s, Tail(rest), kept, Append(jobs, job), numJobs)
            ELSE TakeJobs(s, Tail(rest), Append(kept, job), jobs, numJobs)

\* Server::handleJobRequestMessage: the JobResponse goes out on connection r
handleJobRequestMessage(s, r, numJobs) ==
    LET w == TakeJobs(s, s.mPending, << >>, << >>, numJobs)
    IN [s EXCEPT !.mPending = w.pending,
                 !.responses = Put(@, r, [jobs |-> w.jobs,
                                          finished |-> w.finished,
                                          sent |-> FALSE]),
                 !.ev.response = [jobs |-> w.jobs, finished |-> w.finished,
                                  numJobs |-> numJobs]]

\* the timer is left as it is
startRescheduleTimerNever(s) == s

\* Server::startRescheduleTimer
startRescheduleTimer(s) ==
    IF s.timer = -1 THEN [s EXCEPT !.timer = RescheduleTimeout] ELSE s

\* handleJobRequestMessage, lines 1570-1577: one sent job is recorded
RECURSIVE RecordSent(_, _)
RecordSent(s, jobs) ==
    IF jobs = << >> THEN s
    ELSE LET job == Head(jobs)
         IN RecordSent([s EXCEPT
                          !.mProcessingJobs = Put(@, s.id[job], job),
                          !.flags[job] = (@ \cup {Remote}) \ {Rescheduled},
                          !.age[job] = 0],
                       Tail(jobs))

\* handleJobRequestMessage, lines 1567-1579: the sendFinished callback
sendFinished(s, r) ==
    LET m == s.responses[r]
        s1 == IF m.finished THEN [s EXCEPT !.mAnnounced = FALSE] ELSE s
        s2 == RecordSent(s1, m.jobs)
        s3 == startRescheduleTimer(s2)
    IN [s3 EXCEPT !.responses[r].sent = TRUE,
                  !.remoteHeld = @ \cup {s.id[m.jobs[i]] : i \in 1..Len(m.jobs)}]

\* the jobs go back to mPending with their flags as they are
ReinsertFlagged(s, jobs) == [s EXCEPT !.mPending = @ \o jobs]

\* handleJobRequestMessage, lines 1581-1586: the jobs go back to mPending
RECURSIVE Reinsert(_, _)
Reinsert(s, jobs) ==
    IF jobs = << >> THEN s
    ELSE Reinsert([s EXCEPT !.flags[Head(jobs)] = @ \ {Rescheduled},
                            !.mPending = Append(@, Head(jobs))],
                  Tail(jobs))

\* handleJobRequestMessage, lines 1581-1588: onError, connected to the
\* disconnected and error signals of the connection
onError(s, r) ==
    [Reinsert(s, s.responses[r].jobs) EXCEPT !.responses = Drop(@, r)]

\* Rct::LinkedList::remove on the list of Remotes
Unlink(list, key) == SelectSeq(list, LAMBDA k : k # key)

\* handleJobResponseMessage, lines 1600-1605: the jobs of the response, new
\* FromRemote job objects, are admitted one by one
RECURSIVE AdmitAll(_, _, _)
AdmitAll(s, newJobs, nfail) ==
    IF newJobs = << >> THEN s
    ELSE LET n == Head(newJobs)
         IN AdmitAll(addJob(NewJob(s, n.job, n.id, {FromRemote}, TRUE),
                            n.job, nfail),
                     Tail(newJobs), nfail)

\* handleJobResponseMessage, lines 1606-1612: the peer has no more jobs
ForgetRemote(s, host, finished) ==
    IF finished /\ host \in DOMAIN s.mRemotes
    THEN [s EXCEPT !.mRemotes = Drop(@, host),
                   !.remoteList = Unlink(@, host),
                   !.rrLog = << >>, !.rrLogSet = << >>]
    ELSE s

\* Server::handleJobResponseMessage on connection conn
handleJobResponseMessage(s, conn, newJobs, finished, nfail) ==
    ForgetRemote(AdmitAll([s EXCEPT !.mPendingJobRequests = Drop(@, conn),
                                    !.ev.peer = s.mPendingJobRequests[conn].host,
                                    !.ev.finished = finished],
                          newJobs, nfail),
                 s.mPendingJobRequests[conn].host, finished)

\* a Remote that announces again is linked in once more
handleJobAnnouncementAgain(s, msgHost, peer, nfail) ==
    LET Body(t) ==
            LET host == IF msgHost = NoHost THEN peer ELSE msgHost
            IN [t EXCEPT !.mRemotes = Put(@, msgHost, host),
                         !.remoteList = Append(@, msgHost),
                         !.rrLog = << >>, !.rrLogSet = << >>,
                         !.ev.peer = host]
    IN WorkScopeExit(Body(WorkScopeEnter(s).s), WorkScopeEnter(s).work, nfail)

\* Server::handleJobAnnouncementMessage; msgHost is message.host(), peer
\* the host of the connection
handleJobAnnouncementMessage(s, msgHost, peer, nfail) ==
    LET Body(t) ==
            IF msgHost \notin DOMAIN t.mRemotes
            THEN LET host == IF msgHost = NoHost THEN peer ELSE msgHost
                 IN [t EXCEPT !.mRemotes = Put(@, msgHost, host),
                              !.remoteList = Append(@, msgHost),
                              !.rrLog = << >>, !.rrLogSet = << >>,
                              !.ev.peer = host]
            ELSE [t EXCEPT !.remoteList = Append(Unlink(@, msgHost), msgHost),
                           !.rrLog = << >>,
                           !.ev.peer = t.mRemotes[msgHost]]
    IN WorkScopeExit(Body(WorkScopeEnter(s).s), WorkScopeEnter(s).work, nfail)

\* the JobAnnouncement goes to every client, the announcing one as well
handleProxyEcho(s, peer, port, nfail) ==
    handleJobAnnouncementMessage(
        [s EXCEPT !.ev.relayed = {[to |-> c, host |-> peer, port |-> port] :
                                     c \in s.mClients},
                  !.ev.peer = peer, !.ev.port = port],
        peer, peer, nfail)

\* Server::handleProxyJobAnnouncementMessage from the client peer:
\* JobAnnouncementMessage(peerName, port) goes to every other client
handleProxyJobAnnouncementMessage(s, peer, port, nfail) ==
    handleJobAnnouncementMessage(
        [s EXCEPT !.ev.relayed = {[to |-> c, host |-> peer, port |-> port] :
                                     c \in s.mClients \ {peer}},
                  !.ev.peer = peer, !.ev.port = port],
        peer, peer, nfail)

\* Server::handleClientConnectedMessage
handleClientConnectedMessage(s, nfail) ==
    Work([s EXCEPT !.mAnnounced = FALSE], nfail)

\* Server::handleClientMessage from peer
handleClientMessage(s, peer, nfail) ==
    handleClientConnectedMessage([s EXCEPT !.mClients = @ \cup {peer}], nfail)

\* Server::onConnectionDisconnected for a client connection
clientDisconnected(s, peer) == [s EXCEPT !.mClients = @ \ {peer}]

\* Server::onConnectionDisconnected, and the finished callback of line 2232,
\* for the connection of a JobRequest
requestClosed(s, conn) == [s EXCEPT !.mPendingJobRequests = Drop(@, conn)]

\* a walk that puts back every job a peer has, however long it has had it
RECURSIVE RescheduleWalkAnyAge(_, _, _, _)
RescheduleWalkAnyAge(s, ids, restartTimer, doWork) ==
    IF ids = {} THEN [s |-> s, restartTimer |-> restartTimer, doWork |-> doWork]
    ELSE LET k == MinOf(ids)
             job == s.mProcessingJobs[k]
             f == s.flags[job]
         IN IF f \cap CompleteMask # {}
            THEN RescheduleWalkAnyAge([s EXCEPT !.mProcessingJobs = Drop(@, k)],
                                      ids \ {k}, restartTimer, doWork)
            ELSE IF f \cap {Rescheduled, RunningLocal} = {} /\ Remote \in f
            THEN RescheduleWalkAnyAge(
                     [s EXCEPT !.flags[job] = @ \cup {Rescheduled},
                               !.mPending = Append(@, job)],
                     ids \ {k}, restartTimer, TRUE)
            ELSE RescheduleWalkAnyAge(s, ids \ {k}, restartTimer, doWork)

\* onReschedule, lines 1766-1791: the walk over mProcessingJobs in key order
RECURSIVE RescheduleWalk(_, _, _, _)
RescheduleWalk(s, ids, restartTimer, doWork) ==
    IF ids = {} THEN [s |-> s, restartTimer |-> restartTimer, doWork |-> doWork]
    ELSE LET k == MinOf(ids)
             job == s.mProcessingJobs[k]
             f == s.flags[job]
         IN IF f \cap CompleteMask # {}
            THEN RescheduleWalk([s EXCEPT !.mProcessingJobs = Drop(@, k)],
                                ids \ {k}, restartTimer, doWork)
            ELSE IF f \cap {Rescheduled, RunningLocal} = {} /\ Remote \in f
            THEN IF s.age[job] >= RescheduleTimeout
                 THEN RescheduleWalk(
                        [s EXCEPT !.flags[job] = @ \cup {Rescheduled},
                                  !.mPending = Append(@, job)],
                        ids \ {k}, restartTimer, TRUE)
                 ELSE RescheduleWalk(s, ids \ {k}, TRUE, doWork)
            ELSE RescheduleWalk(s, ids \ {k}, restartTimer, doWork)

\* Server::onReschedule, the timeout of the single-shot mRescheduleTimer
onReschedule(s, nfail) ==
    LET w == RescheduleWalk([s EXCEPT !.timer = -1],
                            DOMAIN s.mProcessingJobs, FALSE, FALSE)
        s1 == IF w.restartTimer THEN startRescheduleTimer(w.s) ELSE w.s
    IN IF w.doWork THEN WorkScopeExit(WorkScopeEnter(s1).s, WorkScopeEnter(s1).work, nfail) ELSE s1

\* Server::jobCount with a count in 0..100
setJobCount(s, n, nfail) ==
    WorkScopeExit([WorkScopeEnter(s).s EXCEPT !.jobCount = n, !.ev.acked = TRUE], WorkScopeEnter(s).work, nfail)

\* Server::preprocess for a new compile; off the farm Server::index and
\* Project::index admit the job at once through Server::addJob
preprocessSource(s, job, nfail) ==
    LET Body(t) ==
            IF ~hasServer(t)
            THEN addJob(NewJob(t, job, job, {}, FALSE), job, nfail)
            ELSE [t EXCEPT !.mPendingPreprocessJobs = Append(@, job)]
    IN WorkScopeExit(Body(WorkScopeEnter([s EXCEPT !.mProjects = TRUE]).s),
                     WorkScopeEnter([s EXCEPT !.mProjects = TRUE]).work, nfail)

\* Server::preprocess off the farm for a unit whose flags hold HighPriority
preprocessPriority(s, job, nfail) ==
    LET Body(t) ==
            IF ~hasServer(t)
            THEN addJob(NewJob(t, job, job, {HighPriority}, FALSE), job, nfail)
            ELSE [t EXCEPT !.mPendingPreprocessJobs = Append(@, job)]
    IN WorkScopeExit(Body(WorkScopeEnter([s EXCEPT !.mProjects = TRUE]).s),
                     WorkScopeEnter([s EXCEPT !.mProjects = TRUE]).work, nfail)

\* PreprocessJob::run has finished: the unit is indexed (Server::index,
\* Project::index, Server::addJob), or dropped when preprocessing failed
preprocessDone(s, job, ok, nfail) ==
    LET s1 == [s EXCEPT !.pool = @ \ {job}]
    IN IF ok THEN addJob(NewJob(s1, job, job, {}, TRUE), job, nfail)
       ELSE s1

\* IndexerJob::abort
abort(s, job) == [s EXCEPT !.flags[job] = @ \cup {Aborted}]

\* Server::removeProject, line 1271
removeProject(s) == [s EXCEPT !.mProjects = FALSE]

\* --------------------------------------------------------------- shutdown
\* The nodes of a farm, each a Server of which only what handleExitMessage
\* reads and writes is kept, and the messages under way between them.

\* the messages the nodes exchange here
ExitMessage(code, forward) ==
    [type |-> "Exit", exitCode |-> code, forward |-> forward]
ClientMessage == [type |-> "Client", exitCode |-> 0, forward |-> FALSE]
ClientConnectedMessage ==
    [type |-> "ClientConnected", exitCode |-> 0, forward |-> FALSE]

\* a Server as constructed: mExitCode(0), no connections
NewNode ==
    [running |-> TRUE, mServerConnection |-> FALSE, mClients |-> {},
     mExitCode |-> 0, grace |-> FALSE, quitIn |-> "no", quitOn |-> "none"]

\* the farm as one record
Farm == [node |-> node, wire |-> wire]

\* Connection::send on the connection from node n to node to
SendTo(f, n, to, m) == [f EXCEPT !.wire[<<n, to>>] = Append(@, m)]

\* handleExitMessage, lines 572-579: the message goes to every client
RECURSIVE Broadcast(_, _, _, _)
Broadcast(f, n, clients, m) ==
    IF clients = {} THEN f
    ELSE LET c == MinOf(clients)
         IN Broadcast(SendTo(f, n, c, m), n, clients \ {c}, m)

\* handleExitMessage, lines 585-586: EventLoop::quit after 1000 ms
QuitLater(f, n) == [f EXCEPT !.node[n].grace = TRUE]

\* a node without clients waits for the timer as well
LeafWaits(f, n, m) == QuitLater(f, n)

\* handleExitMessage, lines 581-582: EventLoop::quit inside the handler
QuitNow(f, n, m) ==
    [f EXCEPT !.node[n].running = FALSE,
              !.node[n].quitIn = "handler",
              !.node[n].quitOn = IF m.forward THEN "forward" ELSE "final"]

\* a node that sends nothing upstream
ForwardNot(f, n, m) == f

\* handleExitMessage, lines 568-569: the message goes to the job-server
Forward(f, n, m) == SendTo(f, n, JobServerNode, m)

\* handleExitMessage, lines 570-583: no job-server to forward to
ExitHere(f, n, m) ==
    IF f.node[n].mClients # {}
    THEN QuitLater(Broadcast(f, n, f.node[n].mClients,
                             ExitMessage(f.node[n].mExitCode, FALSE)), n)
    ELSE QuitNow(f, n, m)

\* Server::handleExitMessage on node n
handleExitMessage(f, n, m) ==
    IF f.node[n].mServerConnection /\ m.forward
    THEN QuitLater(Forward([f EXCEPT !.node[n].mExitCode = m.exitCode],
                           n, m), n)
    ELSE ExitHere([f EXCEPT !.node[n].mExitCode = m.exitCode], n, m)

\* Server::connectToServer on client n, and the connected callback of lines
\* 2013-2026 that sends the ClientMessage
connectToServer(f, n) ==
    SendTo([f EXCEPT !.node[n].mServerConnection = TRUE],
           n, JobServerNode, ClientMessage)

\* Server::handleClientMessage, lines 1648-1654, on node n: the client is
\* entered in mClients and the other clients are told
clientJoined(f, n, from) ==
    Broadcast([f EXCEPT !.node[n].mClients = @ \cup {from}], n,
              f.node[n].mClients \ {from}, ClientConnectedMessage)

\* Server::onNewMessage on node n for message m of node from; a node that
\* has quit reads nothing
onNewMessage(f, n, from, m) ==
    IF ~f.node[n].running THEN f
    ELSE IF m.type = "Exit" THEN handleExitMessage(f, n, m)
    ELSE IF m.type = "Client" THEN clientJoined(f, n, from)
    ELSE f

\* Server::onConnectionDisconnected and the disconnected callback of lines
\* 2005-2012 on node n: the connection with peer is gone
peerGone(f, n, peer) ==
    [f EXCEPT !.node[n].mClients = @ \ {peer},
              !.node[n].mServerConnection =
                  IF peer = JobServerNode THEN FALSE ELSE @]

\* ----------------------------------------------------------------- actions
\* Server::Server: the tables of a server that has just been constructed
Built(c, r, n, nlc) ==
    /\ cfg = c
    /\ role = r
    /\ noLocalCompiles = nlc
    /\ jobCount = n
    /\ mServerConnection = FALSE
    /\ mClients = {}
    /\ mProjects = FALSE
    /\ mPendingPreprocessJobs = << >>
    /\ pool = {}
    /\ mPending = << >>
    /\ mProcessingJobs = << >>
    /\ mLocalJobs = << >>
    /\ mPendingJobRequests = << >>
    /\ mRemotes = << >>
    /\ remoteList = << >>
    /\ mAnnounced = FALSE
    /\ mWorkPending = FALSE
    /\ born = {}
    /\ id = [j \in Jobs |-> 0]
    /\ flags = [j \in Jobs |-> {}]
    /\ preprocessed = [j \in Jobs |-> FALSE]
    /\ process = [j \in Jobs |-> 0]
    /\ age = [j \in Jobs |-> 0]
    /\ reported = {}
    /\ timer = -1
    /\ responses = << >>
    /\ remoteHeld = {}
    /\ crashTimers = [j \in Jobs |-> 0]
    /\ notify = {}
    /\ rrLog = << >>
    /\ rrLogSet = << >>
    /\ ev = NoEvent

\* a server started without --no-local-compiles
Constructed(c, r, n) == Built(c, r, n, FALSE)

\* no shutdown has been asked for
NoRequest == [node |-> 0, code |-> 0, farm |-> FALSE]

\* a run about one server: the other nodes of the farm are left out
Start(c, r, n) ==
    /\ Constructed(c, r, n)
    /\ node = << >>
    /\ wire = << >>
    /\ exitAsked = NoRequest

\* connectTcp failures before a success
Fails == 0..Cardinality(DOMAIN mRemotes)

\* own job objects not constructed yet
Unborn == {j \in cfg.own : j \notin born /\ j \notin pool
                        /\ ~InSeq(mPendingPreprocessJobs, j)
                        /\ j \notin remoteHeld}
UnbornRemote == {j \in RemoteSlots : j \notin born}
NextOwn == IF Unborn = {} THEN {} ELSE {MinOf(Unborn)}
Readd == {0} \cup NextOwn

\* a client sends a compile command (handleCompileMessage, index, preprocess)
Compile ==
    \E j \in NextOwn, nfail \in Fails :
        Install(preprocessSource(Op(Cur, "Compile", j), j, nfail))

\* a source is to be indexed ahead of the others
CompileUrgent ==
    \E j \in NextOwn, nfail \in Fails :
        Install(preprocessPriority(Op(Cur, "CompileUrgent", j), j, nfail))

\* a preprocess job of the thread pool finishes
PreprocessDone ==
    \E j \in pool, ok \in BOOLEAN, nfail \in Fails :
        Install(preprocessDone(Op(Cur, "PreprocessDone", j), j, ok, nfail))

\* the child p has sent its IndexerMessage
Reported(s, p) ==
    [s EXCEPT !.reported = IF p \in DOMAIN s.mLocalJobs THEN @ \cup {p} ELSE @]

\* the child p of one of our own jobs sends its IndexerMessage
ChildReportOf(p) ==
    \E readd \in Readd, nfail \in Fails :
        /\ p \in DOMAIN mLocalJobs
        /\ p \notin reported
        /\ FromRemote \notin flags[mLocalJobs[p]]
        /\ Install(Reported(handleIndexerMessage(
                                 Op(Cur, "IndexerMessage", 0),
                                 id[mLocalJobs[p]], TRUE, readd, nfail), p))
ChildReport == \E p \in Procs : ChildReportOf(p)

\* a peer sends the IndexerMessage of a job it got from us
RemoteReply ==
    \E m \in remoteHeld, readd \in Readd, nfail \in Fails :
        Install(handleIndexerMessage(
                    [Op(Cur, "IndexerMessage", 0) EXCEPT !.remoteHeld = @ \ {m}],
                    m, FALSE, readd, nfail))

\* the child p exits: with status 0 once its result was taken, or failing
ChildExitOf(p, failed) ==
    \E loaded \in BOOLEAN, nfail \in Fails :
        /\ p \in DOMAIN mLocalJobs
        /\ ~failed => (p \in reported \/ FromRemote \in flags[mLocalJobs[p]])
        /\ ~failed => loaded
        /\ Install(onLocalJobFinished(Op(Cur, "LocalJobFinished", 0), p,
                                      failed, loaded, nfail))
ChildExit == \E p \in Procs, failed \in BOOLEAN : ChildExitOf(p, failed)

\* a child exits with status 0
ChildDone == \E p \in Procs : ChildExitOf(p, FALSE)

\* the 500 ms timer of a crashed child fires
CrashNotify ==
    \E j \in Jobs, readd \in Readd, nfail \in Fails :
        /\ crashTimers[j] > 0
        /\ Install(crashNotification(Op(Cur, "CrashNotify", j), j, readd, nfail))

\* a peer asks for jobs
JobRequest ==
    \E n \in 1..cfg.maxJobCount :
        /\ hasServer(Cur)
        /\ Resps \ DOMAIN responses # {}
        /\ Install(handleJobRequestMessage(Op(Cur, "JobRequest", 0),
                       MinOf(Resps \ DOMAIN responses), n))

\* the JobResponse has been written out
SendFinished ==
    \E r \in DOMAIN responses :
        /\ ~responses[r].sent
        /\ Install(sendFinished(Op(Cur, "SendFinished", 0), r))

\* the connection of a JobResponse fails or is closed by the peer
ResponseClosed ==
    \E r \in DOMAIN responses :
        Install(onError(Op(Cur, IF responses[r].sent THEN "ClosedAfterSend"
                                ELSE "ClosedBeforeSend", 0), r))

\* the jobs a peer may answer a JobRequest for count jobs with
Offers(count) ==
    {<< >>} \cup
    {<<[job |-> j, id |-> i]>> : j \in (IF UnbornRemote = {} THEN {}
                                        ELSE {MinOf(UnbornRemote)}),
                                 i \in cfg.ids}

\* the JobResponse to one of our JobRequests arrives
JobResponse ==
    \E c \in DOMAIN mPendingJobRequests, nfail \in Fails :
        \E newJobs \in Offers(mPendingJobRequests[c].count) :
            Install(handleJobResponseMessage(Op(Cur, "JobResponse", 0), c,
                        newJobs, Len(newJobs) < mPendingJobRequests[c].count,
                        nfail))

\* the connection of a JobRequest finishes or disconnects without a response
RequestClosed ==
    \E c \in DOMAIN mPendingJobRequests :
        Install(requestClosed(Op(Cur, "RequestClosed", 0), c))

\* the job-server (host 1) announces its own jobs, or those of client h
JobAnnouncement ==
    \E h \in cfg.hosts, nfail \in Fails :
        /\ role = "client" /\ mServerConnection
        /\ Install(handleJobAnnouncementMessage(Op(Cur, "JobAnnouncement", 0),
                                                h, 1, nfail))

\* a client of this job-server announces jobs
ProxyJobAnnouncement ==
    \E h \in mClients, port \in Ports, nfail \in Fails :
        /\ role = "server"
        /\ Install(handleProxyJobAnnouncementMessage(
                       Op(Cur, "ProxyJobAnnouncement", 0), h, port, nfail))

\* a new client of this job-server sends its ClientMessage
ClientJoin ==
    \E h \in Hosts \ mClients, nfail \in Fails :
        /\ role = "server"
        /\ Install(handleClientMessage(Op(Cur, "ClientConnected", 0), h, nfail))

\* the job-server tells us that a client joined
ClientConnected ==
    \E nfail \in Fails :
        /\ role = "client" /\ mServerConnection
        /\ Install(handleClientConnectedMessage(Op(Cur, "ClientConnected", 0),
                                                nfail))

\* a client of this job-server disconnects
ClientLeave ==
    \E h \in mClients :
        Install(clientDisconnected(Op(Cur, "ClientLeave", 0), h))

\* mRescheduleTimer times out
Reschedule ==
    \E nfail \in Fails :
        /\ timer = 0
        /\ Install(onReschedule(Op(Cur, "Reschedule", 0), nfail))

\* time passes
Ticking(j) == j \in Range(mProcessingJobs) /\ Remote \in flags[j]
Tick ==
    /\ timer > 0 \/ \E j \in Jobs : Ticking(j) /\ age[j] < RescheduleTimeout
    /\ Install([Op(Cur, "Tick", 0) EXCEPT
                  !.timer = IF @ > 0 THEN @ - 1 ELSE @,
                  !.age = [j \in Jobs |->
                             IF Ticking(j) THEN Min(@[j] + 1, RescheduleTimeout)
                             ELSE @[j]]])

\* rc -j n
SetJobCount ==
    \E n \in cfg.minJobCount..cfg.maxJobCount, nfail \in Fails :
        /\ n # jobCount
        /\ Install(setJobCount(Op(Cur, "JobCount", 0), n, nfail))

\* the project aborts a job that has not finished
Live(j) ==
    /\ j \in born
    /\ InSeq(mPending, j) \/ j \in Range(mProcessingJobs)
         \/ j \in Range(mLocalJobs)
    /\ flags[j] \cap (CompleteMask \cup {Aborted}) = {}
Abort ==
    \E j \in cfg.own :
        /\ Live(j)
        /\ Install(abort(Op(Cur, "Abort", j), j))

\* rc -D: the project is deleted
RemoveProject ==
    /\ mProjects
    /\ Install(removeProject(Op(Cur, "RemoveProject", 0)))

\* the connection to the job-server is established or lost
ServerConnect ==
    /\ role = "client" /\ ~mServerConnection
    /\ Install([Op(Cur, "ServerConnect", 0) EXCEPT !.mServerConnection = TRUE])
ServerDisconnect ==
    /\ role = "client" /\ mServerConnection
    /\ Install([Op(Cur, "ServerDisconnect", 0) EXCEPT
                   !.mServerConnection = FALSE])

\* the variables of the scheduler of one server
sched == << cfg, role, noLocalCompiles, jobCount, mServerConnection, mClients,
            mProjects, mPendingPreprocessJobs, pool, mPending,
            mProcessingJobs, mLocalJobs, mPendingJobRequests, mRemotes,
            remoteList, mAnnounced, mWorkPending, born, id, flags,
            preprocessed, process, age, reported, timer, responses,
            remoteHeld, crashTimers, notify, rrLog, rrLogSet, ev >>

\* a handler of a node of the farm runs to completion
FarmStep(f) ==
    /\ node' = f.node
    /\ wire' = f.wire
    /\ UNCHANGED sched

\* every client is connected and known to the job-server
FarmConnected ==
    \A c \in Hosts : /\ node[c].running /\ node[c].mServerConnection
                     /\ c \in node[JobServerNode].mClients

\* client n connects to the job-server
FarmJoin ==
    \E n \in Hosts :
        /\ node[n].running /\ ~node[n].mServerConnection
        /\ node[JobServerNode].running
        /\ FarmStep(connectToServer(Farm, n))
        /\ UNCHANGED exitAsked

\* rc asks node n to shut the farm down with an exit code (Server::shutdown,
\* lines 1386-1391); one request in a run
Shutdown ==
    \E n \in FarmNodes, code \in ExitCodes :
        /\ node[n].running /\ exitAsked = NoRequest
        /\ FarmStep(handleExitMessage(Farm, n, ExitMessage(code, TRUE)))
        /\ exitAsked' = [node |-> n, code |-> code, farm |-> FarmConnected]

\* the next message of node from arrives at node to
Deliver(from, to) ==
    /\ wire[<<from, to>>] # << >>
    /\ FarmStep(onNewMessage([Farm EXCEPT !.wire[<<from, to>>] = Tail(@)],
                             to, from, Head(wire[<<from, to>>])))
    /\ UNCHANGED exitAsked
Delivery == \E from \in FarmNodes, to \in FarmNodes : Deliver(from, to)

\* the 1000 ms timer of handleExitMessage fires on node n
GraceTimeout(n) ==
    /\ node[n].running /\ node[n].grace
    /\ FarmStep([Farm EXCEPT !.node[n].running = FALSE,
                             !.node[n].quitIn = "timer"])
    /\ UNCHANGED exitAsked
Grace == \E n \in FarmNodes : GraceTimeout(n)

\* node n sees the connection with a node that has quit go away, after the
\* last message of that node
PeerClosed ==
    \E n \in FarmNodes, peer \in FarmNodes :
        /\ node[n].running /\ ~node[peer].running
        /\ wire[<<peer, n>>] = << >>
        /\ peer \in node[n].mClients
             \/ (peer = JobServerNode /\ node[n].mServerConnection)
        /\ FarmStep(peerGone(Farm, n, peer))
        /\ UNCHANGED exitAsked

\* ------------------------------------------------- finding the job-server
\* In the runs about discovery, node holds for every server of the farm its
\* options and its connection to the job-server, and wire the multicast
\* datagrams that wait to be read at it.

\* mOptions.tcpPort of the job-server
ServerPort == MaxPort

\* an address as mOptions.jobServer holds it; second = 0 when not set
Address(host, port) == [first |-> host, second |-> port]
NoAddress == Address(NoHost, 0)

\* the datagrams of onMulticastReadyRead: the query "s?" and the
\* serialized (host, port) of a reply, with the address they come from
QueryFrom(n) == [ip |-> n, query |-> TRUE, host |-> NoHost, port |-> 0]
ReplyFrom(n, a) == [ip |-> n, query |-> FALSE, host |-> a.first, port |-> a.second]

\* a Server before Server::init, with mOptions.jobServer as configured
NewPeer(js, a) ==
    [up |-> FALSE, jobServerOpt |-> js, jobServer |-> a, configured |-> a,
     mServerConnection |-> "none", peer |-> NoAddress, conns |-> 0,
     mConnectToServerFailures |-> 0, mConnectToServerTimer |-> 0,
     streak |-> 0, said |-> "none", dialed |-> NoAddress]

\* SocketClient::writeTo the multicast group: every other member that has
\* bound the socket gets the datagram (setMulticastLoop(false), line 261);
\* a datagram that finds the queue full is lost
writeTo(d, n, dg) ==
    [d EXCEPT !.wire = [m \in FarmNodes |->
                          IF m # n /\ d.node[m].up /\ Len(@[m]) < MaxDatagrams
                          THEN Append(@[m], dg) ELSE @[m]]]

\* a retry after the same delay whatever the count of failures
restartTimerFlat(d, n) ==
    [d EXCEPT !.node[n].mConnectToServerFailures = @ + 1,
              !.node[n].mConnectToServerTimer = ServerReconnectTimer]

\* mConnectToServerTimer.restart(ServerReconnectTimer *
\* ++mConnectToServerFailures)
restartTimer(d, n) ==
    [d EXCEPT !.node[n].mConnectToServerFailures = @ + 1,
              !.node[n].mConnectToServerTimer =
                  ServerReconnectTimer * (d.node[n].mConnectToServerFailures + 1)]

\* the Connection behind mServerConnection is deleted
dropServerConnection(d, n) ==
    [d EXCEPT !.node[n].mServerConnection = "none",
              !.node[n].peer = NoAddress,
              !.node[n].conns = @ - 1]

\* Server::connectToServer, lines 1986-2035; ok is what connectTcp returns
connectToServerNow(d, n, ok) ==
    LET d0 == [d EXCEPT !.node[n].mConnectToServerTimer = 0]
        me == d0.node[n]
    IN IF me.mServerConnection # "none" THEN d0
       ELSE IF me.jobServer.second = 0
       THEN [restartTimer(writeTo(d0, n, QueryFrom(n)), n) EXCEPT
                !.node[n].said = "query"]
       ELSE LET d1 == [d0 EXCEPT !.node[n].mServerConnection = "connecting",
                                 !.node[n].peer = me.jobServer,
                                 !.node[n].conns = @ + 1,
                                 !.node[n].dialed = me.jobServer]
            IN IF ok THEN [d1 EXCEPT !.node[n].said = "dial"]
               ELSE [restartTimer(dropServerConnection(d1, n), n) EXCEPT
                        !.node[n].said = "dialFailed"]

\* the connected callback of lines 2013-2026; sent is what send returns
serverConnected(d, n, sent) ==
    LET d0 == [d EXCEPT !.node[n].mConnectToServerFailures = 0]
    IN IF sent
       THEN [d0 EXCEPT !.node[n].mServerConnection = "connected",
                       !.node[n].said = "connected"]
       ELSE [restartTimer(dropServerConnection(d0, n), n) EXCEPT
                !.node[n].said = "sendFailed"]

\* the disconnected callback of lines 2005-2012
serverDisconnected(d, n) ==
    [restartTimer(dropServerConnection(d, n), n) EXCEPT
        !.node[n].said = "disconnected"]

\* the answer to "s?", lines 1809-1841: the address a server knows the
\* job-server by, if it knows one
KnownServer(me) ==
    IF me.mServerConnection # "none" THEN me.peer
    ELSE IF me.jobServer.second # 0 THEN me.jobServer
    ELSE IF me.jobServerOpt THEN Address(NoHost, ServerPort)
    ELSE NoAddress

\* a reply is recorded as it came, with the host left empty
recordAsSent(dg) == Address(dg.host, dg.port)

\* lines 1843-1846: the (host, port) of a reply, with the address of the
\* sender for an empty host
recordReply(dg) ==
    Address(IF dg.host = NoHost THEN dg.ip ELSE dg.host, dg.port)

\* Server::onMulticastReadyRead, lines 1799-1853
onMulticastReadyRead(d, n, dg, ok) ==
    LET me == d.node[n]
    IN IF dg.query
       THEN IF KnownServer(me) = NoAddress
            THEN [d EXCEPT !.node[n].said = "silent"]
            ELSE [writeTo(d, n, ReplyFrom(n, KnownServer(me))) EXCEPT
                     !.node[n].said = "reply"]
       ELSE IF me.mServerConnection = "none" /\ ~me.jobServerOpt
       THEN connectToServerNow(
                [d EXCEPT !.node[n].jobServer = recordReply(dg)], n, ok)
       ELSE [d EXCEPT !.node[n].said = "ignored"]

\* the farm as the handlers of discovery see it, every handler starting
\* with nothing said
Disc(n) == [node |-> [node EXCEPT ![n].said = "none"], wire |-> wire]

\* the consecutive unsuccessful attempts of node n as an onlooker counts
\* them after a handler that left the node as me: none once the connection
\* is established, one more for a query sent, a dial refused, a
\* ClientMessage not sent or a connection lost
Onlooker(me, before) ==
    IF me.said = "connected" THEN 0
    ELSE IF me.said = "sendFailed" THEN 1
    ELSE IF me.said \in {"query", "dialFailed", "disconnected"} THEN before + 1
    ELSE before

\* a handler of node n runs to completion
DiscStep(r, n) ==
    /\ r.node[n].mConnectToServerFailures <= MaxFailures
    /\ node' = [r.node EXCEPT ![n].streak = Onlooker(r.node[n], node[n].streak)]
    /\ wire' = r.wire
    /\ UNCHANGED sched
    /\ UNCHANGED exitAsked

\* Server::init, lines 252-305: the multicast socket is bound, and a
\* server that is not the job-server calls connectToServer
Boot ==
    \E n \in FarmNodes, ok \in BOOLEAN :
        /\ ~node[n].up
        /\ DiscStep(IF node[n].jobServerOpt
                    THEN [Disc(n) EXCEPT !.node[n].up = TRUE]
                    ELSE connectToServerNow(
                             [Disc(n) EXCEPT !.node[n].up = TRUE], n, ok), n)

\* mConnectToServerTimer times out (line 128)
RetryTimeout ==
    \E n \in FarmNodes, ok \in BOOLEAN :
        /\ node[n].mConnectToServerTimer > 0
        /\ DiscStep(connectToServerNow(Disc(n), n, ok), n)

\* the next datagram is read at node n
Datagram ==
    \E n \in FarmNodes, ok \in BOOLEAN :
        /\ node[n].up /\ wire[n] # << >>
        /\ DiscStep(onMulticastReadyRead(
                        [Disc(n) EXCEPT !.wire[n] = Tail(@)], n,
                        Head(wire[n]), ok), n)

\* a datagram is lost on the way
DatagramLost ==
    \E n \in FarmNodes :
        /\ wire[n] # << >>
        /\ DiscStep([Disc(n) EXCEPT !.wire[n] = Tail(@)], n)

\* the connection a node dialled is established: the address is the one
\* the job-server listens at
ServerConnected ==
    \E n \in FarmNodes, sent \in BOOLEAN :
        /\ node[n].mServerConnection = "connecting"
        /\ node[n].peer = Address(JobServerNode, ServerPort)
        /\ node[JobServerNode].up
        /\ DiscStep(serverConnected(Disc(n), n, sent), n)

\* the connection to the job-server is refused or lost
ServerLost ==
    \E n \in FarmNodes :
        /\ node[n].mServerConnection # "none"
        /\ DiscStep(serverDisconnected(Disc(n), n), n)

\* ---------------------------------------------------------- specifications

\* the life of a job on the job-server of a farm: local children, peers
\* taking jobs and answering, the reschedule timer, crashes and aborts
InitLife ==
    Start([own |-> 1..NumOwn, maxJobCount |-> 1, hosts |-> {}, ids |-> {},
           log |-> 0,
           minJobCount |-> 0, maxPending |-> MaxPending,
           watch |-> {"op", "job", "mid", "found", "local", "acked",
                      "notified", "renotified"}],
          "server", 1)
NextLife ==
    \/ Compile
    \/ PreprocessDone
    \/ ChildReport
    \/ RemoteReply
    \/ ChildExit
    \/ CrashNotify
    \/ JobRequest
    \/ SendFinished
    \/ ResponseClosed
    \/ Reschedule
    \/ Tick
    \/ Abort
    \/ SetJobCount
Spec == InitLife /\ [][NextLife]_vars

\* a client of a job-server: peers announce jobs, jobs of peers are asked
\* for and run here next to our own
InitFarm ==
    Start([own |-> 1..NumOwn, maxJobCount |-> MaxJobCount,
           hosts |-> {NoHost}, ids |-> {ForeignId}, log |-> 0,
           minJobCount |-> 0, maxPending |-> MaxPending,
           watch |-> {"op", "announce", "acted", "over", "overActed"}],
          "client", 1)
NextFarm ==
    \/ ServerConnect
    \/ ServerDisconnect
    \/ Compile
    \/ PreprocessDone
    \/ ChildReport
    \/ ChildExit
    \/ CrashNotify
    \/ JobAnnouncement
    \/ ClientConnected
    \/ JobResponse
    \/ RequestClosed
    \/ SetJobCount
    \/ RemoveProject
    \/ JobRequest
    \/ SendFinished
    \/ ResponseClosed
SpecFarm == InitFarm /\ [][NextFarm]_vars

\* the registry of peers: announcements, JobRequests in turn, the jobs of
\* the peers run here
InitPeers ==
    Start([own |-> {}, maxJobCount |-> MaxJobCount,
           hosts |-> {NoHost} \cup (Hosts \ {1}), ids |-> {ForeignId},
           log |-> MaxLog, minJobCount |-> 0, maxPending |-> MaxPending,
           watch |-> {"op", "requests", "workRuns", "launched", "peer",
                      "finished"}],
          "client", MaxJobCount)
NextPeers ==
    \/ ServerConnect
    \/ ServerDisconnect
    \/ JobAnnouncement
    \/ JobResponse
    \/ RequestClosed
    \/ ChildExit
    \/ SetJobCount
SpecPeers == InitPeers /\ [][NextPeers]_vars

\* a client that is asked for jobs by its peers while its queue holds jobs
\* of its own, preprocessed or not, and jobs of a peer
InitServe ==
    Start([own |-> 1..NumQueued, maxJobCount |-> MaxJobCount,
           hosts |-> {NoHost}, ids |-> {ForeignId}, log |-> 0,
           minJobCount |-> 0, maxPending |-> MaxQueue, watch |-> {"op", "response"}],
          "client", 0)
NextServe ==
    \/ ServerConnect
    \/ Compile
    \/ PreprocessDone
    \/ JobRequest
    \/ SendFinished
    \/ ResponseClosed
    \/ RemoteReply
    \/ JobAnnouncement
    \/ JobResponse
    \/ SetJobCount
SpecServe == InitServe /\ [][NextServe]_vars

\* a client whose jobCount stays as configured: its connection to the
\* job-server comes and goes, it runs its own jobs and those of a peer
InitSteady ==
    Start([own |-> 1..NumQueued, maxJobCount |-> MaxJobCount,
           hosts |-> {NoHost}, ids |-> {ForeignId}, log |-> 0,
           minJobCount |-> 0, maxPending |-> MaxQueue,
           watch |-> {"op", "announce", "requests", "launched",
                      "workRuns"}],
          "client", MaxJobCount)
NextSteady ==
    \/ ServerConnect
    \/ ServerDisconnect
    \/ Compile
    \/ PreprocessDone
    \/ ChildReport
    \/ ChildExit
    \/ CrashNotify
    \/ JobAnnouncement
    \/ JobResponse
    \/ RequestClosed
SpecSteady == InitSteady /\ [][NextSteady]_vars

\* a client that runs its own jobs and those of a peer; the peer numbers
\* its jobs as we number ours
InitCollide ==
    Start([own |-> 1..NumOwn, maxJobCount |-> MaxJobCount,
           hosts |-> {NoHost}, ids |-> {1}, log |-> 0,
           minJobCount |-> 0, maxPending |-> MaxPending,
           watch |-> {"op", "destroyed"}],
          "client", 1)
NextCollide ==
    \/ ServerConnect
    \/ Compile
    \/ PreprocessDone
    \/ ChildReport
    \/ ChildExit
    \/ JobAnnouncement
    \/ JobResponse
    \/ RequestClosed
    \/ SetJobCount
SpecCollide == InitCollide /\ [][NextCollide]_vars

\* a job-server started with --no-local-compiles: it takes compiles,
\* announces them, hands them to the clients that ask, and hears of the
\* jobs of its clients
InitNoLocal ==
    /\ Built([own |-> 1..NumOwn, maxJobCount |-> MaxJobCount,
              hosts |-> {}, ids |-> {}, log |-> 0,
              minJobCount |-> 1, maxPending |-> MaxPending,
              watch |-> {"op", "announce"}],
             "server", MaxJobCount, TRUE)
    /\ node = << >>
    /\ wire = << >>
    /\ exitAsked = NoRequest
NextNoLocal ==
    \/ Compile
    \/ PreprocessDone
    \/ ClientJoin
    \/ ClientLeave
    \/ ProxyJobAnnouncement
    \/ JobRequest
    \/ SendFinished
    \/ ResponseClosed
    \/ RemoteReply
    \/ Reschedule
    \/ Tick
    \/ SetJobCount
SpecNoLocal == InitNoLocal /\ [][NextNoLocal]_vars

\* a server without a job-server: compiles are indexed at once
InitSolo ==
    Start([own |-> 1..NumQueued, maxJobCount |-> MaxJobCount,
           hosts |-> {}, ids |-> {}, log |-> 0,
           minJobCount |-> 0, maxPending |-> MaxPending,
           watch |-> {"op", "job", "workRuns", "nested", "inner", "scopes"}],
          "solo", 1)
NextSolo ==
    \/ Compile
    \/ ChildReport
    \/ ChildExit
    \/ CrashNotify
    \/ SetJobCount
    \/ Abort
    \/ RemoveProject
SpecSolo == InitSolo /\ [][NextSolo]_vars

\* a server off the farm whose children all report and exit with status 0,
\* each of them in the end
InitSoloLive ==
    Start([own |-> 1..NumSolo, maxJobCount |-> MaxJobCount,
           hosts |-> {}, ids |-> {}, log |-> 0, minJobCount |-> 1,
           maxPending |-> MaxQueue,
           watch |-> {"op", "job", "notified", "renotified", "destroyed"}],
          "solo", 1)
NextSoloLive ==
    \/ Compile
    \/ ChildReport
    \/ ChildDone
    \/ SetJobCount
\* weak fairness of the report and of the exit of each child: WF_vars of
\* ChildReportOf(p) and of ChildExitOf(p, FALSE), written out with the
\* guard of the action for its ENABLED
FairSoloLive ==
    \A p \in Procs :
        /\ []<>(~(p \in DOMAIN mLocalJobs /\ p \notin reported))
             \/ []<><<ChildReportOf(p)>>_vars
        /\ []<>(~(p \in DOMAIN mLocalJobs /\ p \in reported))
             \/ []<><<ChildExitOf(p, FALSE)>>_vars
SpecSoloLive == InitSoloLive /\ [][NextSoloLive]_vars /\ FairSoloLive

\* a server off the farm that is given sources to index, some of them with
\* HighPriority, while rc -j opens and closes its slots
InitPriority ==
    Start([own |-> 1..NumSolo, maxJobCount |-> 1, hosts |-> {}, ids |-> {},
           log |-> 0, minJobCount |-> 0, maxPending |-> MaxQueue,
           watch |-> {"op", "job", "launched"}],
          "solo", 0)
NextPriority ==
    \/ Compile
    \/ CompileUrgent
    \/ ChildReport
    \/ ChildDone
    \/ SetJobCount
SpecPriority == InitPriority /\ [][NextPriority]_vars

\* a job-server whose clients come and go and announce jobs, which it asks
\* them for and runs
InitRelay ==
    Start([own |-> {}, maxJobCount |-> MaxJobCount, hosts |-> {},
           ids |-> {ForeignId}, log |-> 0, minJobCount |-> 0,
           maxPending |-> MaxPending,
           watch |-> {"op", "relayed", "peer", "port", "requests"}],
          "server", 1)
NextRelay ==
    \/ ClientJoin
    \/ ClientLeave
    \/ ProxyJobAnnouncement
    \/ JobResponse
    \/ RequestClosed
    \/ ChildExit
    \/ SetJobCount
SpecRelay == InitRelay /\ [][NextRelay]_vars

\* a farm of a job-server and its clients that is shut down: every message
\* under way arrives and every timer fires in the end
InitExit ==
    /\ Constructed([own |-> {}, maxJobCount |-> 1, hosts |-> {}, ids |-> {},
                    log |-> 0, minJobCount |-> 0, maxPending |-> MaxPending,
                    watch |-> {}],
                   "server", 1)
    /\ node = [n \in FarmNodes |-> NewNode]
    /\ wire = [c \in FarmNodes \X FarmNodes |-> << >>]
    /\ exitAsked = NoRequest
NextExit ==
    \/ FarmJoin
    \/ Shutdown
    \/ Delivery
    \/ Grace
    \/ PeerClosed
FairExit ==
    /\ \A from \in FarmNodes, to \in FarmNodes : WF_vars(Deliver(from, to))
    /\ \A n \in FarmNodes : WF_vars(GraceTimeout(n))
SpecExit == InitExit /\ [][NextExit]_vars /\ FairExit

\* a job-server and its clients find each other: a client starts with the
\* address of the job-server configured or without it
InitDiscover ==
    /\ Constructed([own |-> {}, maxJobCount |-> 1, hosts |-> {}, ids |-> {},
                    log |-> 0, minJobCount |-> 0, maxPending |-> MaxPending,
                    watch |-> {}],
                   "server", 1)
    /\ \E known \in SUBSET Hosts :
          node = [n \in FarmNodes |->
                    IF n = JobServerNode THEN NewPeer(TRUE, NoAddress)
                    ELSE IF n \in known
                    THEN NewPeer(FALSE, Address(JobServerNode, ServerPort))
                    ELSE NewPeer(FALSE, NoAddress)]
    /\ wire = [n \in FarmNodes |-> << >>]
    /\ exitAsked = NoRequest
NextDiscover ==
    \/ Boot
    \/ RetryTimeout
    \/ Datagram
    \/ DatagramLost
    \/ ServerConnected
    \/ ServerLost
SpecDiscover == InitDiscover /\ [][NextDiscover]_vars

\* the life of a job on a job-server that may run two children at a time
InitWide ==
    Start([own |-> 1..NumOwn, maxJobCount |-> MaxJobCount, hosts |-> {},
           ids |-> {}, log |-> 0, minJobCount |-> 0,
           maxPending |-> MaxPending, watch |-> {"op"}],
          "server", 0)
NextWide ==
    \/ Compile
    \/ PreprocessDone
    \/ ChildReport
    \/ RemoteReply
    \/ ChildExit
    \/ JobRequest
    \/ SendFinished
    \/ ResponseClosed
    \/ Reschedule
    \/ Tick
    \/ SetJobCount
SpecWide == InitWide /\ [][NextWide]_vars

\* a client with one slot whose pool, children and JobRequests all come
\* to an end: a preprocess job finishes, a child reports and exits with
\* status 0, and a JobRequest is answered or its connection closes.
\* Compiles, announcements and the connection to the job-server come as
\* they may. Fairness is written as for SpecSoloLive.
InitRequestLive ==
    Start([own |-> 1..NumQueued, maxJobCount |-> 1, hosts |-> {NoHost},
           ids |-> {ForeignId}, log |-> 0, minJobCount |-> 1,
           maxPending |-> MaxQueue, watch |-> {"op", "workRuns"}],
          "client", 1)
NextRequestLive ==
    \/ ServerConnect
    \/ Compile
    \/ PreprocessDone
    \/ ChildReport
    \/ ChildDone
    \/ JobAnnouncement
    \/ JobResponse
    \/ RequestClosed
FairRequestLive ==
    /\ []<>(pool = {}) \/ []<><<PreprocessDone>>_vars
    /\ []<>(mPendingJobRequests = << >>)
         \/ []<><<JobResponse \/ RequestClosed>>_vars
    /\ \A p \in Procs :
        /\ []<>(~(p \in DOMAIN mLocalJobs /\ p \notin reported
                    /\ FromRemote \notin flags[mLocalJobs[p]]))
             \/ []<><<ChildReportOf(p)>>_vars
        /\ []<>(~(p \in DOMAIN mLocalJobs
                    /\ (p \in reported \/ FromRemote \in flags[mLocalJobs[p]])))
             \/ []<><<ChildExitOf(p, FALSE)>>_vars
SpecRequestLive ==
    InitRequestLive /\ [][NextRequestLive]_vars /\ FairRequestLive

\* ------------------------------------------------------------------ claims
\* the tables of the scheduler that hold job j
Tables(j) ==
    (IF InSeq(mPending, j) THEN {"pending"} ELSE {})
      \cup (IF j \in Range(mProcessingJobs) THEN {"processing"} ELSE {})
      \cup (IF j \in Range(mLocalJobs) THEN {"local"} ELSE {})

\* job j is among the jobs of a JobResponse that is being written
InFlight(j) ==
    \E r \in DOMAIN responses :
        ~responses[r].sent /\ InSeq(responses[r].jobs, j)

\* flags of a job of our own that has neither finished nor failed
Unfinished(f) ==
    f \cap (CompleteMask \cup {Aborted, Crashed, FromRemote}) = {}

\* C1: Project::onJobFinished is called at most once for a job: no handler
\* calls it with a job it was called with before
SingleCompletion == ~ev.renotified

\* C2: no job carries both CompleteLocal and CompleteRemote, and a Complete
\* flag that is set on a job is never changed as long as the job exists
FirstWins ==
    /\ [](\A j \in Jobs : ~(CompleteMask \subseteq flags[j]))
    /\ [][\A j \in born \cap born' :
            flags[j] \cap CompleteMask # {}
              => flags'[j] \cap CompleteMask = flags[j] \cap CompleteMask]_vars

\* a result found its job in mProcessingJobs after the job was complete,
\* and was not handed to the project
FirstWinsWitness ==
    /\ ev.op = "IndexerMessage" /\ ev.found
    /\ ev.notified = {}
    /\ flags[ev.job] \cap CompleteMask # {}

\* C5: a job runs on a peer and, put back in mPending, as a local child as
\* well; the result of the peer comes first: it is accepted (CompleteRemote,
\* onJobFinished), and the later result of the child is not handed on
RemoteBeatsReplica ==
    [][/\ \A j \in born :
            ( /\ ev'.op = "IndexerMessage" /\ ~ev'.local /\ ev'.mid = id[j]
              /\ j \in Range(mProcessingJobs) /\ j \in Range(mLocalJobs)
              /\ {Remote, RunningLocal} \subseteq flags[j]
              /\ flags[j] \cap (CompleteMask \cup {Aborted}) = {}
              /\ mProjects )
            => /\ CompleteRemote \in flags'[j]
               /\ CompleteLocal \notin flags'[j]
               /\ ev'.notified = {j}
               /\ j \notin Range(mProcessingJobs')
       /\ \A j \in born :
            ( /\ ev'.op = "IndexerMessage" /\ ev'.local /\ ev'.mid = id[j]
              /\ CompleteRemote \in flags[j] )
            => /\ ev'.notified = {}
               /\ flags'[j] \cap CompleteMask = {CompleteRemote}]_vars

\* the child of a job reports after the result of the peer was accepted
RemoteBeatsReplicaWitness ==
    /\ ev.op = "IndexerMessage" /\ ev.local /\ ev.notified = {}
    /\ \E j \in Range(mLocalJobs) :
          /\ id[j] = ev.mid
          /\ CompleteRemote \in flags[j]
          /\ j \in notify

\* C10 as stated: an IndexerMessage for a job that is not in
\* mProcessingJobs changes no table and no flag
StrayResultChangesNothing ==
    [][(ev'.op = "IndexerMessage" /\ ~ev'.found)
         => /\ mPending' = mPending
            /\ mProcessingJobs' = mProcessingJobs
            /\ mLocalJobs' = mLocalJobs
            /\ flags' = flags
            /\ ev'.notified = {}
            /\ ev'.acked]_vars

\* C10, amended: such a message has no effect of its own, the project is
\* not called and the connection is finished; the tables change only as the
\* work() pass of the handler's WorkScope changes them
StrayResultOnlySchedules ==
    [][(ev'.op = "IndexerMessage" /\ ~ev'.found)
         => /\ \E nfail \in Fails :
                 LET w == Reap(Work(Cur, nfail))
                 IN /\ mPending' = w.mPending
                    /\ mProcessingJobs' = w.mProcessingJobs
                    /\ mLocalJobs' = w.mLocalJobs
                    /\ flags' = w.flags
            /\ ev'.notified = {}
            /\ ev'.acked]_vars

\* a result for a job that is not in mProcessingJobs has been handled
StrayResultWitness ==
    ev.op = "IndexerMessage" /\ ~ev.found /\ ev.acked

\* C3, with what the code needs allowed for (a job of a JobResponse being
\* written is held by the response alone, a crashed job is dropped): a job
\* of our own is in mPending, mProcessingJobs or mLocalJobs until it is
\* complete, aborted or crashed, and is not destroyed before
TrackedUntilDone ==
    /\ \A j \in born : Unfinished(flags[j]) => (Tables(j) # {} \/ InFlight(j))
    /\ \A d \in ev.destroyed : ~Unfinished(d.flags)

\* C8, with the child of one of our own jobs allowed in mProcessingJobs and
\* mLocalJobs at once: a job that has not finished is once in one table,
\* or Rescheduled in mProcessingJobs and once in mPending
PlacedOnce ==
    \A j \in born :
        (flags[j] \cap (CompleteMask \cup {Aborted, Crashed}) = {}
           /\ Tables(j) # {})
        => \/ Cardinality(Tables(j)) = 1 /\ Count(mPending, j) <= 1
           \/ Tables(j) = {"processing", "local"} /\ FromRemote \notin flags[j]
           \/ /\ Rescheduled \in flags[j]
              /\ Tables(j) = {"pending", "processing"}
              /\ Count(mPending, j) = 1

\* C4 as stated: every work() pass returns with the children, the
\* preprocess jobs of the thread pool and the jobs asked of peers within
\* jobCount
SlotBound == ~ev.over

\* C4, amended: a work() pass that launches a child or sends a JobRequest
\* returns with children, preprocess jobs of the pool and jobs asked of peers
\* within jobCount
SlotBoundWhenActing == ~ev.overActed

\* a pass has acted and left children and a JobRequest behind
SlotBoundWitness ==
    /\ ev.acted
    /\ mLocalJobs # << >>
    /\ mPendingJobRequests # << >>
    /\ Load(Cur) = jobCount

\* C6: a handler announces our jobs at most once, and only when mAnnounced
\* was false or the handler is that of a client that joined
AnnounceOnce ==
    [][ev'.announce > 0
         => /\ ev'.announce = 1
            /\ mAnnounced'
            /\ ~mAnnounced \/ ev'.op = "ClientConnected"]_vars

\* work() has run with a job to announce and has not announced it again
AnnounceOnceWitness ==
    /\ mAnnounced /\ mProjects /\ mServerConnection
    /\ ev.op = "JobAnnouncement" /\ ev.announce = 0
    /\ \E i \in 1..Len(mPending) : FromRemote \notin flags[mPending[i]]

\* the peers of the registry are chosen in turn over the dispatches of log
InTurn(log) ==
    LET peers == {mRemotes[k] : k \in DOMAIN mRemotes}
        n == Cardinality(peers)
        k == Len(log)
    IN (n >= 1 /\ k >= 1)
         => \A h \in peers :
               Count(log, h) \in {k \div n, (k + n - 1) \div n}

NestedScopesWorkOnce ==
    ev.nested > 0 => (ev.workRuns = 1 /\ ev.inner = 0)

\* a handler with a nested WorkScope has run
NestedScopesWitness == ev.nested > 0 /\ ev.workRuns = 1

\* job j of mPending may be given to a peer: it has not finished, is not
\* the job of a peer and has been preprocessed
MayBeSent(j) ==
    /\ flags[j] \cap CompleteMask = {}
    /\ FromRemote \notin flags[j]
    /\ preprocessed[j]
Eligible(q) == SelectSeq(q, MayBeSent)

\* C11: the JobResponse to JobRequest(n) carries at most n jobs, the first
\* eligible jobs of mPending in their order, and is marked finished exactly
\* when it carries fewer than n
ResponseWithinRequest ==
    [][ev'.op = "JobRequest"
         => LET m == ev'.response
            IN /\ Len(m.jobs) <= m.numJobs
               /\ m.jobs = SeqTake(Eligible(mPending),
                                   Min(m.numJobs, Len(Eligible(mPending))))
               /\ m.finished <=> (Len(m.jobs) < m.numJobs)
               /\ \E r \in DOMAIN responses' :
                      /\ r \notin DOMAIN responses
                      /\ responses'[r].jobs = m.jobs
                      /\ responses'[r].finished = m.finished]_vars

\* a peer asked for one job and got one, and another job that could have
\* been sent is still in mPending
ResponseWithinRequestWitness ==
    /\ ev.op = "JobRequest" /\ ev.response.numJobs = 1
    /\ Len(ev.response.jobs) = 1 /\ ~ev.response.finished
    /\ \E j \in Range(mPending) : MayBeSent(j)

\* the jobs of a JobResponse could be sent, and the jobs of mPending that
\* could not be sent are where they were
SentWereSendable ==
    /\ \A j \in Range(ev'.response.jobs) : MayBeSent(j)
    /\ \A j \in Range(mPending) :
          (flags[j] \cap CompleteMask = {} /\ ~MayBeSent(j))
            => /\ j \notin Range(ev'.response.jobs)
               /\ Count(mPending', j) = Count(mPending, j)

\* C12 as stated: only jobs that are preprocessed, not FromRemote and not
\* complete are sent; the complete jobs of mPending are erased from it, the
\* other jobs that are not sent stay
SendableOnlyAllErased ==
    [][ev'.op = "JobRequest"
         => /\ SentWereSendable
            /\ \A j \in Range(mPending) :
                  flags[j] \cap CompleteMask # {}
                    => j \notin Range(mPending')]_vars

\* the place in q of the n-th job that may be sent, Len(q) if there are
\* fewer: how far the walk of a JobRequest for n jobs gets
WalkEnd(q, n) ==
    IF Len(Eligible(q)) < n THEN Len(q)
    ELSE MinOf({k \in 1..Len(q) : Len(Eligible(SeqTake(q, k))) = n})

\* C12, amended: the complete jobs are erased as far as the walk gets,
\* which stops at the n-th job it takes
SendableOnly ==
    [][ev'.op = "JobRequest"
         => /\ SentWereSendable
            /\ LET k == WalkEnd(mPending, ev'.response.numJobs)
               IN mPending' =
                    SelectSeq(SeqTake(mPending, k),
                              LAMBDA j : flags[j] \cap CompleteMask = {}
                                           /\ ~MayBeSent(j))
                      \o SeqDrop(mPending, k)]_vars

\* a JobRequest was answered with a job while a job of a peer and a job
\* that is not preprocessed stayed in mPending
SendableOnlyWitness ==
    /\ ev.op = "JobRequest" /\ ev.response.jobs # << >>
    /\ \E j \in Range(mPending) : FromRemote \in flags[j]
    /\ \E j \in Range(mPending) :
          FromRemote \notin flags[j] /\ ~preprocessed[j]

LocalWithinJobCount == Cardinality(DOMAIN mLocalJobs) <= jobCount

\* as many children run as jobCount allows, and a job waits in mPending
LocalWithinJobCountWitness ==
    /\ Cardinality(DOMAIN mLocalJobs) = jobCount
    /\ jobCount = MaxJobCount
    /\ mPending # << >>

\* C15: a client without a connection to the job-server sends no
\* announcement and no JobRequest and does not set mAnnounced; a work() pass
\* it makes leaves a job in mPending only when no slot is free
StandaloneKeepsQuiet ==
    /\ [][(role = "client" /\ ~mServerConnection /\ ~mServerConnection')
            => /\ ev'.announce = 0
               /\ ev'.requests = << >>
               /\ mAnnounced' => mAnnounced
               /\ DOMAIN mPendingJobRequests' \subseteq
                     DOMAIN mPendingJobRequests]_vars
    /\ []((role = "client" /\ ~mServerConnection /\ ev.workRuns > 0)
            => (mPending = << >> \/ Load(Cur) >= jobCount))

\* a client that knows a peer and has lost its connection to the job-server
\* launched a job, had a slot left and asked no peer
StandaloneKeepsQuietWitness ==
    /\ role = "client" /\ ~mServerConnection
    /\ DOMAIN mRemotes # {}
    /\ ev.launched # << >> /\ ev.requests = << >>
    /\ Load(Cur) < jobCount
    /\ ~mAnnounced

\* C16: off the farm, with children that report and exit with status 0,
\* every job is in the end handed to Project::onJobFinished, once, and
\* after that it leaves mProcessingJobs and mLocalJobs; no job is destroyed
\* before
SoloCompletes ==
    /\ \A j \in 1..NumSolo :
          /\ (j \in born) ~> (j \in notify)
          /\ (j \in notify) ~> /\ j \notin Range(mProcessingJobs)
                               /\ j \notin Range(mLocalJobs)
    /\ [](~ev.renotified)
    /\ [](\A d \in ev.destroyed : CompleteLocal \in d.flags)

\* the child of a job that was handed to the project has exited and the
\* job is gone, while another job waits for the slot
SoloCompletesWitness ==
    /\ ev.op = "LocalJobFinished"
    /\ \E d \in ev.destroyed : CompleteLocal \in d.flags
    /\ mPending # << >>

\* job j is with a peer and line 1774 would look at its age: it is in
\* mProcessingJobs with Remote and without Rescheduled, RunningLocal or a
\* Complete flag
Outstanding(j) ==
    /\ j \in Range(mProcessingJobs)
    /\ Remote \in flags[j]
    /\ flags[j] \cap ({Rescheduled, RunningLocal} \cup CompleteMask) = {}

\* when mRescheduleTimer fires, every outstanding job that is old enough is
\* flagged Rescheduled and appended to mPending (the work() pass of the
\* handler may launch it at once), and if a younger one is left the timer
\* runs again
FiringReschedules ==
    [][ev'.op = "Reschedule"
         => \A j \in born :
               Outstanding(j)
                 => IF age[j] >= RescheduleTimeout
                    THEN \/ Rescheduled \in flags'[j] /\ InSeq(mPending', j)
                         \/ RunningLocal \in flags'[j]
                              /\ j \in Range(mLocalJobs')
                    ELSE timer' >= 0]_vars

\* C17 as stated: while a job is outstanding and does not carry
\* Rescheduled, mRescheduleTimer is running, and its firing reschedules the
\* job
ArmedWhileOutstanding ==
    /\ [](\A j \in born : Outstanding(j) => timer >= 0)
    /\ FiringReschedules

\* C17, amended: the same for the outstanding jobs that are neither in
\* mPending nor among the jobs of a JobResponse that is being written
ArmedWhileAway ==
    /\ [](\A j \in born :
            (Outstanding(j) /\ ~InSeq(mPending, j) /\ ~InFlight(j))
              => timer >= 0)
    /\ FiringReschedules

\* the timer fired and put a job back in mPending with Rescheduled, the
\* job still being in mProcessingJobs as Remote
ArmedWhileAwayWitness ==
    /\ ev.op = "Reschedule"
    /\ \E j \in Range(mPending) :
          /\ {Remote, Rescheduled} \subseteq flags[j]
          /\ j \in Range(mProcessingJobs)

\* C18: an ExitMessage(code, forward) that rc gives to a client of a
\* connected farm goes upstream to the job-server, the job-server sends
\* ExitMessage(code, FALSE) to each of its clients, and in the end every
\* node has quit with mExitCode = code
FarmQuits ==
    /\ [][\A a \in Hosts :
            ( /\ exitAsked = NoRequest /\ exitAsked'.node = a
              /\ node[a].mServerConnection )
            => /\ wire'[<<a, JobServerNode>>] =
                    Append(wire[<<a, JobServerNode>>],
                           ExitMessage(exitAsked'.code, TRUE))
               /\ node'[a].running]_vars
    /\ [][\A a \in Hosts :
            ( /\ wire[<<a, JobServerNode>>] # << >>
              /\ wire'[<<a, JobServerNode>>] = Tail(wire[<<a, JobServerNode>>])
              /\ Head(wire[<<a, JobServerNode>>]).type = "Exit"
              /\ node[JobServerNode].running )
            => \A c \in node[JobServerNode].mClients :
                  wire'[<<JobServerNode, c>>] =
                    Append(wire[<<JobServerNode, c>>],
                           ExitMessage(Head(wire[<<a, JobServerNode>>]).exitCode,
                                       FALSE))]_vars
    /\ \A a \in Hosts, code \in ExitCodes :
          (exitAsked = [node |-> a, code |-> code, farm |-> TRUE])
            ~> (\A n \in FarmNodes :
                   ~node[n].running /\ node[n].mExitCode = code)

\* a client of a connected farm was asked to shut down with a code other
\* than 0, and every node has quit with that code
FarmQuitsWitness ==
    /\ exitAsked.node \in Hosts /\ exitAsked.farm /\ exitAsked.code # 0
    /\ \A n \in FarmNodes :
          ~node[n].running /\ node[n].mExitCode = exitAsked.code

\* C19 as stated: no node quits inside the handler of an ExitMessage with
\* forward = FALSE
NoDirectQuit ==
    \A n \in FarmNodes :
        ~(node[n].quitIn = "handler" /\ node[n].quitOn = "final")

\* C19, amended: a node quits inside the handler of an ExitMessage exactly
\* when it has no clients and does not forward the message; a node that
\* gets forward = FALSE and has clients tells them and waits for the timer
GraceOnlyWithClients ==
    /\ [][\A n \in FarmNodes :
            (node[n].running /\ node'[n].quitIn = "handler")
              => /\ node[n].mClients = {}
                 /\ node'[n].quitOn = "final" \/ ~node[n].mServerConnection]_vars
    /\ [][\A n \in FarmNodes :
            ( /\ wire[<<JobServerNode, n>>] # << >>
              /\ wire'[<<JobServerNode, n>>] = Tail(wire[<<JobServerNode, n>>])
              /\ Head(wire[<<JobServerNode, n>>]).type = "Exit"
              /\ ~Head(wire[<<JobServerNode, n>>]).forward
              /\ node[n].running )
            => IF node[n].mClients = {}
               THEN ~node'[n].running /\ node'[n].quitIn = "handler"
               ELSE node'[n].running /\ node'[n].grace]_vars
    /\ [](\A n \in FarmNodes :
            node[n].quitIn = "timer" => node[n].grace)

\* a client has quit inside the handler of the ExitMessage the job-server
\* sent to its clients, and the job-server has quit on its timer
GraceOnlyWithClientsWitness ==
    /\ node[JobServerNode].quitIn = "timer"
    /\ \E c \in Hosts :
          node[c].quitIn = "handler" /\ node[c].quitOn = "final"

\* a step in which an IndexerMessage or the exit of a local child is
\* handled while job j is flagged Aborted
AbortedHandled(j) ==
    /\ j \in born /\ Aborted \in flags[j]
    /\ ev'.op \in {"IndexerMessage", "LocalJobFinished"}

\* the flags alone: such a step adds neither Crashed nor a Complete flag
\* to the job
AbortedKeepsFlags ==
    [][\A j \in Jobs :
         AbortedHandled(j)
           => (flags'[j] \cap (CompleteMask \cup {Crashed})) \subseteq flags[j]]_vars

\* C20: for a job flagged Aborted, neither an arriving IndexerMessage nor a
\* failing local child sets Crashed or a Complete flag, hands the job to
\* onJobFinished, or registers the delayed crash notification for it
AbortedIsSilent ==
    [][\A j \in Jobs :
         AbortedHandled(j)
           => /\ (flags'[j] \cap (CompleteMask \cup {Crashed})) \subseteq flags[j]
              /\ j \notin ev'.notified
              /\ crashTimers'[j] <= crashTimers[j]]_vars

\* C21: no job flagged FromRemote is in mProcessingJobs or among the jobs
\* of a JobResponse we send; of the tables, a job received in a JobResponse
\* is in mPending or mLocalJobs only
PeerJobsUntracked ==
    \A j \in born :
        FromRemote \in flags[j]
          => /\ j \notin Range(mProcessingJobs)
             /\ Tables(j) \subseteq {"pending", "local"}
             /\ \A r \in DOMAIN responses : ~InSeq(responses[r].jobs, j)

\* the job of a peer runs here as a local child while a job of our own is
\* in mProcessingJobs
PeerJobsUntrackedWitness ==
    /\ \E j \in born : FromRemote \in flags[j] /\ j \in Range(mLocalJobs)
    /\ mProcessingJobs # << >>

\* job j is one the reschedule timer is to put back: Remote, none of
\* Rescheduled, RunningLocal and the Complete flags, and old enough
Due(j) == Outstanding(j) /\ age[j] >= RescheduleTimeout

\* the server as the walk of onReschedule over mProcessingJobs leaves it,
\* before the work() pass that ends the handler
Walked ==
    RescheduleWalk([Cur EXCEPT !.timer = -1], DOMAIN mProcessingJobs,
                   FALSE, FALSE).s

\* C22: when the reschedule timer fires, a job in mProcessingJobs is
\* flagged Rescheduled and appended to mPending if and only if it is Remote,
\* has none of Rescheduled, RunningLocal, CompleteLocal and CompleteRemote
\* and is at least rescheduleTimeout old; such a job stays in
\* mProcessingJobs, and the jobs with a Complete flag are erased from it.
\* The work() pass that ends the handler may launch a job that was put back.
RescheduledIff ==
    /\ [](timer = 0 =>
            /\ SubSeq(Walked.mPending, 1, Len(mPending)) = mPending
            /\ \A k \in DOMAIN mProcessingJobs :
                 LET j == mProcessingJobs[k]
                 IN /\ Due(j) <=> (Rescheduled \in Walked.flags[j]
                                     /\ Rescheduled \notin flags[j])
                    /\ Due(j) <=> (Count(Walked.mPending, j)
                                     = Count(mPending, j) + 1)
                    /\ ~Due(j) => /\ Walked.flags[j] = flags[j]
                                  /\ Count(Walked.mPending, j)
                                       = Count(mPending, j)
                    /\ Due(j) => /\ k \in DOMAIN Walked.mProcessingJobs
                                 /\ Walked.mProcessingJobs[k] = j
                    /\ IsComplete(Cur, j)
                         <=> k \notin DOMAIN Walked.mProcessingJobs)
    /\ [][ev'.op = "Reschedule"
            => \A k \in DOMAIN mProcessingJobs :
                 LET j == mProcessingJobs[k]
                 IN /\ Due(j)
                        => /\ k \in DOMAIN mProcessingJobs'
                           /\ mProcessingJobs'[k] = j
                           /\ \/ Rescheduled \in flags'[j]
                                   /\ InSeq(mPending', j)
                              \/ RunningLocal \in flags'[j]
                                   /\ j \in Range(mLocalJobs')
                    /\ (~Due(j) /\ Rescheduled \notin flags[j])
                        => /\ Rescheduled \notin flags'[j]
                           /\ Count(mPending', j) <= Count(mPending, j)
                    /\ IsComplete(Cur, j)
                        => k \notin DOMAIN mProcessingJobs']_vars

\* the timer has fired: a job a peer has had for too long is back in
\* mPending with Rescheduled and still in mProcessingJobs
RescheduledIffWitness ==
    /\ ev.op = "Reschedule"
    /\ \E j \in born :
          /\ Rescheduled \in flags[j] /\ Remote \in flags[j]
          /\ InSeq(mPending, j) /\ j \in Range(mProcessingJobs)

\* C23: once the send-completed callback of a JobResponse has recorded its
\* jobs in mProcessingJobs with Remote, a disconnect or error on that
\* connection puts none of them back in mPending
NoReinsertAfterSend ==
    [][\A r \in DOMAIN responses :
         ( /\ responses[r].sent
           /\ r \notin DOMAIN responses'
           /\ ev'.op = "ClosedAfterSend" )
         => \A i \in 1..Len(responses[r].jobs) :
               LET j == responses[r].jobs[i]
               IN (j \in Range(mProcessingJobs) /\ Remote \in flags[j])
                    => Count(mPending', j) <= Count(mPending, j)]_vars

\* the jobs of queue q without a Complete flag, in the order of q
LiveIn(q) == SelectSeq(q, LAMBDA j : ~IsComplete(Cur, j))

\* the jobs a handler has put in mPending: those it launched or left in
\* mPending that were not in mPending before
AddedTo(q, launched, left) ==
    SelectSeq(launched \o left, LAMBDA j : ~InSeq(q, j))

HighPriorityFirst ==
    /\ [](\A i, h \in 1..Len(mPending) :
            (HighPriority \in flags[mPending[h]]
               /\ HighPriority \notin flags[mPending[i]]) => h < i)
    /\ [][\A i \in 1..Len(ev'.launched) :
            HighPriority \notin flags'[ev'.launched[i]]
              => \A h \in 1..Len(mPending) :
                    HighPriority \notin flags[mPending[h]]]_vars

\* C26: work() launches a job as a local child only while the project
\* that owns it exists (and only into a free slot: the children never
\* outnumber jobCount after a launch)
NoLaunchWithoutProject ==
    [][\A p \in DOMAIN mLocalJobs' :
         ( /\ p \notin DOMAIN mLocalJobs \/ mLocalJobs[p] # mLocalJobs'[p]
           /\ FromRemote \notin flags'[mLocalJobs'[p]] )
         => /\ mProjects'
            /\ Cardinality(DOMAIN mLocalJobs') <= jobCount']_vars

\* the list of Remotes with its first t entries moved to the tail
Turned(list, t) == SeqDrop(list, t) \o SeqTake(list, t)

\* C27: a work() pass sends at most one JobRequest; its count is the
\* number of slots left free by the local launches, which is positive, and
\* is recorded in mPendingJobRequests for the connection; every peer is
\* dialled at most once in a pass and every dialled peer goes to the tail of
\* the list of Remotes
OneRequestPerWork ==
    /\ [](\A nfail \in Fails :
            LET r == WorkPass(Cur, nfail)
                free == Slots(DrainPreprocess(Cur)) - Len(r.ev.launched)
                n == Len(remoteList)
            IN /\ Len(r.ev.requests) <= 1
               /\ r.mRemotes = mRemotes
               /\ \E t \in 0..n : /\ t <= nfail + 1
                                  /\ r.remoteList = Turned(remoteList, t)
               /\ IF r.ev.requests = << >>
                  THEN r.mPendingJobRequests = mPendingJobRequests
                  ELSE /\ free > 0
                       /\ r.ev.requests[1].count = free
                       /\ \E c \in Conns \ DOMAIN mPendingJobRequests :
                             r.mPendingJobRequests
                               = Put(mPendingJobRequests, c, r.ev.requests[1])
                       /\ mRemotes[r.remoteList[n]] = r.ev.requests[1].host
                       /\ r.remoteList
                            = Turned(remoteList, Min(nfail, n - 1) + 1))
    /\ [][/\ Len(ev'.requests) <= ev'.workRuns
          /\ \A i \in 1..Len(ev'.requests) :
                /\ ev'.requests[i].count > 0
                /\ \E c \in DOMAIN mPendingJobRequests' :
                      mPendingJobRequests'[c] = ev'.requests[i]]_vars

\* a pass of work() has sent a JobRequest to one of two peers and recorded
\* it; that peer is now at the tail of the list of Remotes
OneRequestPerWorkWitness ==
    /\ Len(ev.requests) = 1
    /\ Len(remoteList) = 2
    /\ mRemotes[remoteList[2]] = ev.requests[1].host
    /\ \E c \in DOMAIN mPendingJobRequests :
          mPendingJobRequests[c] = ev.requests[1]

\* C28: on a ProxyJobAnnouncement(port) of client P the job-server sends
\* JobAnnouncement(P, port) to every client in mClients other than P, none
\* to P, and has P in its own registry of Remotes; no other handler relays
ProxyRelayed ==
    [][IF ev'.op = "ProxyJobAnnouncement"
       THEN /\ ev'.peer \in mClients
            /\ ev'.relayed = {[to |-> c, host |-> ev'.peer, port |-> ev'.port] :
                                 c \in mClients \ {ev'.peer}}
            /\ \A m \in ev'.relayed : m.to # ev'.peer
            /\ ev'.peer \in DOMAIN mRemotes'
            /\ mRemotes'[ev'.peer] = ev'.peer
            /\ Count(remoteList', ev'.peer) = 1
       ELSE ev'.relayed = {}]_vars

\* one of two clients has announced jobs: the other was told, and the
\* announcing client is in the registry of the job-server
ProxyRelayedWitness ==
    /\ ev.op = "ProxyJobAnnouncement"
    /\ Cardinality(mClients) = 2
    /\ ev.relayed = {[to |-> c, host |-> ev.peer, port |-> MaxPort] :
                        c \in mClients \ {ev.peer}}
    /\ ev.peer \in DOMAIN mRemotes

\* the peers the registry holds a Remote for, and those linked in the list
Registered == {mRemotes[k] : k \in DOMAIN mRemotes}
Linked == {mRemotes[remoteList[i]] : i \in 1..Len(remoteList)}

\* C29: after a JobResponse with finished = TRUE from peer H was handled, H
\* is neither in the map of Remotes nor in the list, however it had been
\* registered
ForgottenWhenFinished ==
    [][(ev'.op = "JobResponse" /\ ev'.finished)
         => (ev'.peer \notin Registered' /\ ev'.peer \notin Linked')]_vars

\* the map of Remotes and the list hold the same Remotes, each once, and no
\* peer has two Remotes
RegistryConsistent ==
    /\ {remoteList[i] : i \in 1..Len(remoteList)} = DOMAIN mRemotes
    /\ \A k \in DOMAIN mRemotes : Count(remoteList, k) = 1
    /\ \A k, l \in DOMAIN mRemotes : mRemotes[k] = mRemotes[l] => k = l

\* the peer whose JobAnnouncement was handled has one Remote
AnnouncedOnce ==
    Cardinality({i \in 1..Len(remoteList') :
                    mRemotes'[remoteList'[i]] = ev'.peer}) = 1

\* C30 as stated: after a JobAnnouncement for host H was handled, H is once
\* in the registry and at the tail of the list; the map and the list hold
\* the same peers, each once
AnnouncedAtTail ==
    /\ []RegistryConsistent
    /\ [][ev'.op = "JobAnnouncement"
            => /\ AnnouncedOnce
               /\ mRemotes'[remoteList'[Len(remoteList')]] = ev'.peer]_vars

\* C30, amended: H is once in the registry and the list is the one with H
\* at the tail, turned by the peers the work() pass of the handler has
\* dialled; H is at the tail when that pass had no free slot
AnnouncedThenTurned ==
    /\ []RegistryConsistent
    /\ [][ev'.op = "JobAnnouncement"
            => /\ AnnouncedOnce
               /\ LET key == CHOOSE k \in DOMAIN mRemotes' :
                                 mRemotes'[k] = ev'.peer
                      entry == Append(Unlink(remoteList, key), key)
                  IN /\ \E t \in 0..Len(entry) :
                           remoteList' = Turned(entry, t)
                     /\ Slots(Cur) <= 0 => remoteList' = entry]_vars

\* a peer has announced jobs and the work() pass of the handler has asked
\* the other peer for jobs: the announcing peer is first in the list
AnnouncedThenTurnedWitness ==
    /\ ev.op = "JobAnnouncement"
    /\ Len(remoteList) = 2
    /\ mRemotes[remoteList[1]] = ev.peer
    /\ Len(ev.requests) = 1
    /\ ev.requests[1].host = mRemotes[remoteList[2]]

\* the state onLocalJobFinished leaves when child p exits
Finished(p, failed, loaded, nfail) ==
    onLocalJobFinished(Op(Cur, "LocalJobFinished", 0), p, failed, loaded, nfail)

\* whatever the exit: the entry of the child is gone from mLocalJobs (its
\* key may serve a child launched since) and the job is in neither
\* mLocalJobs nor mProcessingJobs
ChildReaped(t, p, job) ==
    /\ p \in DOMAIN t.mLocalJobs => InSeq(t.ev.launched, t.mLocalJobs[p])
    /\ job \notin Range(t.mLocalJobs)
    /\ job \notin Range(t.mProcessingJobs)
    /\ t.process[job] = 0

\* a child whose job is Complete: no Crashed, no notification
ChildOfCompleteReaped(t, job) ==
    /\ (Crashed \in t.flags[job]) = (Crashed \in flags[job])
    /\ t.crashTimers = crashTimers

Relaunched(t, job) == InSeq(t.ev.launched, job)

Announcable(j) == FromRemote \notin flags[j] /\ ~IsComplete(Cur, j)
OwesAnnouncement ==
    /\ hasServer(Cur) /\ ~mAnnounced /\ mProjects
    /\ \E i \in 1..Len(mPending) : Announcable(mPending[i])

\* C32: under NoLocalCompiles mLocalJobs and mPendingJobRequests are empty
\* in every reachable state, no pass of work() launches a child or sends a
\* JobRequest, and a pass that finds jobs to announce that were not
\* announced announces them
NoLocalCompilesIdle ==
    noLocalCompiles
      => /\ mLocalJobs = << >>
         /\ mPendingJobRequests = << >>
         /\ \A nfail \in Fails :
              LET r == WorkPass(Cur, nfail)
              IN /\ r.ev.launched = << >> /\ r.ev.requests = << >>
                 /\ r.mLocalJobs = << >> /\ r.mPendingJobRequests = << >>
                 /\ OwesAnnouncement
                      => r.mAnnounced /\ r.ev.announce = 1

\* a handler has announced jobs while peers are registered, slots are
\* free by the count of jobCount, and nothing runs here
NoLocalCompilesIdleWitness ==
    /\ noLocalCompiles
    /\ ev.announce = 1
    /\ mPending # << >>
    /\ mRemotes # << >>
    /\ jobCount > Cardinality(pool)
    /\ mLocalJobs = << >> /\ mPendingJobRequests = << >>

\* the number of preprocess jobs work() may start when the queue is q, the
\* pool holds busy jobs and pending jobs wait in mPending
Room(q, busy, pending) ==
    Max(0, Min(Len(q), MaxPendingPreprocessSize - (busy + pending)))

\* the jobs of q are those of r behind exactly n jobs that are now in the
\* pool p
Drained(q, p, r, rp, n) ==
    /\ r = SeqDrop(q, n)
    /\ rp = p \cup Range(SeqTake(q, n))
    /\ Cardinality(rp) = Cardinality(p) + n

Replies(n) ==
    {ReplyFrom(m, Address(h, p)) :
        m \in FarmNodes \ {n}, h \in {NoHost} \cup FarmNodes, p \in Ports}
Queries(n) == {QueryFrom(m) : m \in FarmNodes \ {n}}

\* node n after reading dg
Read(n, dg, ok) == onMulticastReadyRead(Disc(n), n, dg, ok).node[n]

\* C34: a server that is not the job-server and has no server connection
\* records the (host, port) of a reply as its job-server, with the address
\* of the sender for an empty host, and dials it; a server that has a
\* server connection or is the job-server keeps its setting on any reply;
\* a query is answered exactly by a server that is the job-server, has a
\* server connection or has the address in its options
DiscoveryReplyRecorded ==
    \A n \in FarmNodes, ok \in BOOLEAN :
       node[n].up =>
        /\ \A dg \in Replies(n) :
              IF node[n].mServerConnection = "none" /\ ~node[n].jobServerOpt
              THEN /\ Read(n, dg, ok).jobServer =
                          Address(IF dg.host = NoHost THEN dg.ip ELSE dg.host,
                                  dg.port)
                   /\ Read(n, dg, ok).said \in {"dial", "dialFailed"}
                   /\ Read(n, dg, ok).dialed = Read(n, dg, ok).jobServer
                   /\ ok => /\ Read(n, dg, ok).mServerConnection = "connecting"
                            /\ Read(n, dg, ok).peer = Read(n, dg, ok).jobServer
              ELSE /\ Read(n, dg, ok).jobServer = node[n].jobServer
                   /\ Read(n, dg, ok).said = "ignored"
        /\ \A dg \in Queries(n) :
              /\ (Read(n, dg, ok).said = "reply")
                    = (\/ node[n].jobServerOpt
                       \/ node[n].mServerConnection = "connected"
                       \/ node[n].jobServer.second # 0)
              /\ Read(n, dg, ok).jobServer = node[n].jobServer
              /\ Read(n, dg, ok).mServerConnection = node[n].mServerConnection

\* a client that started without an address has read the reply of the
\* job-server, recorded the address of the sender with the port of the
\* reply, and dialled it
DiscoveryReplyRecordedWitness ==
    \E c \in Hosts :
        /\ node[c].configured = NoAddress
        /\ node[c].said = "dial"
        /\ node[c].jobServer = Address(JobServerNode, ServerPort)
        /\ node[c].mServerConnection = "connecting"
        /\ node[c].peer = node[c].jobServer

\* the last handler of node n ended an attempt without success
Unsuccessful(n) ==
    node[n].said \in {"query", "dialFailed", "sendFailed", "disconnected"}

\* C35: after the k-th consecutive unsuccessful attempt the timer is set to
\* ServerReconnectTimer times k; mConnectToServerFailures is 0 once a
\* connection to the job-server is established; a server never has more
\* than one Connection to the job-server
BackoffLinear ==
    \A n \in FarmNodes :
        /\ Unsuccessful(n)
             => /\ node[n].streak >= 1
                /\ node[n].mConnectToServerTimer
                       = ServerReconnectTimer * node[n].streak
        /\ node[n].said = "connected"
             => node[n].mConnectToServerFailures = 0 /\ node[n].streak = 0
        /\ node[n].mServerConnection = "connected"
             => node[n].mConnectToServerFailures = 0
        /\ node[n].conns <= 1
        /\ (node[n].conns = 1) = (node[n].mServerConnection # "none")

\* a third attempt in a row has failed, a dial after a query and a lost
\* connection or the like, and the timer is set to three times the base
BackoffLinearWitness ==
    \E c \in Hosts :
        /\ node[c].said = "dialFailed"
        /\ node[c].streak = 3
        /\ node[c].mConnectToServerTimer = 3 * ServerReconnectTimer

\* the assertion of onReschedule, line 1784: no job the walk is about to
\* append is in mPending already
NotPendingWhenDue ==
    timer = 0 => \A j \in Range(mProcessingJobs) : Due(j) => ~InSeq(mPending, j)

\* C36: no job occurs more than once in mPending, and when the reschedule
\* timer fires no job it puts back is in mPending already
PendingOnce ==
    /\ \A j \in Jobs : Count(mPending, j) <= 1
    /\ NotPendingWhenDue

\* C37: no job is the value of two entries of mLocalJobs, and the job
\* stored under a child records that child as its process, so that the
\* assertions of lines 1867-1871 hold whichever child finishes
OneChildPerJob ==
    \A p \in DOMAIN mLocalJobs :
        /\ process[mLocalJobs[p]] = p
        /\ \A q \in DOMAIN mLocalJobs : mLocalJobs[q] = mLocalJobs[p] => q = p

\* C38: when the child of a FromRemote job finishes, every entry of
\* mProcessingJobs stays as it is, whatever id the job of the peer carries
RemoteChildKeepsProcessing ==
    \A p \in DOMAIN mLocalJobs, failed \in BOOLEAN, loaded \in BOOLEAN,
       nfail \in Fails :
        FromRemote \in flags[mLocalJobs[p]]
          => \A k \in DOMAIN mProcessingJobs :
                /\ k \in DOMAIN Finished(p, failed, loaded, nfail).mProcessingJobs
                /\ Finished(p, failed, loaded, nfail).mProcessingJobs[k]
                       = mProcessingJobs[k]

\* a job waits in mPending although it is not Complete, its project
\* exists and work() would find a free slot
Starved ==
    /\ mProjects
    /\ Slots(Cur) > 0
    /\ \E i \in 1..Len(mPending) : ~IsComplete(Cur, mPending[i])

\* nothing the server has started is still to come: no preprocess job in
\* the thread pool, no child, no JobRequest awaiting its response and no
\* job with a peer for the reschedule timer to put back. Only a compile,
\* an announcement or a request from outside can run a handler now.
AtRest ==
    /\ pool = {}
    /\ DOMAIN mLocalJobs = {}
    /\ mPendingJobRequests = << >>
    /\ \A k \in DOMAIN mProcessingJobs : Remote \notin flags[mProcessingJobs[k]]

\* the same as a property of behaviours: a wait with a free slot ends
StarvedLeadsToServed == Starved ~> ~Starved

\* C39: whenever capacity is freed work() runs again in the end: no job
\* that is not Complete and whose project exists waits in mPending for
\* ever while a slot is free. So the handler that takes a JobRequest out
\* of mPendingJobRequests, answered or not, never leaves a job waiting
\* with a free slot and nothing of the server's own left to run work()
WorkRunsWhenFreed ==
    [][DOMAIN mPendingJobRequests' # DOMAIN mPendingJobRequests
         /\ DOMAIN mPendingJobRequests' \subseteq DOMAIN mPendingJobRequests
         => ~(AtRest' /\ Starved')]_vars

====
